---- MODULE Spec2Model ----
(***************************************************************************)
(* Model of the DRM cgroup parameter code of this repository:              *)
(*                                                                         *)
(*   - the cgroup helper library (drivers/gpu/drm/drm_cgroup_helper.c),    *)
(*     with the i915 callbacks of drivers/gpu/drm/i915/i915_cgroups.c;     *)
(*     specification Spec.                                                 *)
(*   - the reference-counted set-parameter ioctls of                       *)
(*     drivers/gpu/drm/drm_cgroup.c and drivers/gpu/drm/i915/i915_cgroup.c;*)
(*     specification IoctlSpec.                                            *)
(*                                                                         *)
(* Threads execute the functions statement group by statement group; the   *)
(* position of each thread is pc[t] and its locals are op[t].              *)
(***************************************************************************)
EXTENDS Integers, Sequences, FiniteSets, TLC

\* ------------------------------------------------------------------ bounds
NumThreads == 2
NumCgroups == 2
MaxRecords == 2
MaxOps == 3
PrioOffsetLimit == 2
MaxIoctls == 2

Threads == 1..NumThreads
Cgroups == 1..NumCgroups
RecIds == 1..MaxRecords

\* ------------------------------------------------------- program constants
EINVAL == 22
ENOMEM == 12
EBADF == 9
I915_CONTEXT_MAX_USER_PRIORITY == 1023
I915_CONTEXT_MIN_USER_PRIORITY == 0 - 1023
I915_PRIORITY_NORMAL == 0
I915_PRIORITY_MAX == I915_CONTEXT_MAX_USER_PRIORITY + 1
I915_PRIORITY_MIN == I915_CONTEXT_MIN_USER_PRIORITY - 1
HASH_BITS == 5
GOLDEN_RATIO_32 == 1640531527

\* ------------------------------------------------- 64-bit arithmetic
\* req->value of the ioctls (__s64) and val of the helper (int64_t) are
\* signed 64-bit integers.  One is kept as its two's complement bit pattern
\* in four 16-bit limbs, least significant first, so that sums wrap at 64
\* bits (the kernel is built with -fno-strict-overflow) and the store into an
\* int field keeps the low 32 bits.
LIMB == 65536

\* The __s64 an int k is promoted to (sign extension).
S64(k) ==
    LET k1 == k \div LIMB
        k2 == k1 \div LIMB
        k3 == k2 \div LIMB
    IN  <<k % LIMB, k1 % LIMB, k2 % LIMB, k3 % LIMB>>

\* a + b in 64 bits; the carry out of the top limb is lost.
s64_add(a, b) ==
    LET s1 == a[1] + b[1]
        s2 == a[2] + b[2] + (s1 \div LIMB)
        s3 == a[3] + b[3] + (s2 \div LIMB)
        s4 == a[4] + b[4] + (s3 \div LIMB)
    IN  <<s1 % LIMB, s2 % LIMB, s3 % LIMB, s4 % LIMB>>

\* a - b in 64 bits: a + ~b + 1.
s64_sub(a, b) ==
    s64_add(s64_add(a, <<LIMB - 1 - b[1], LIMB - 1 - b[2],
                         LIMB - 1 - b[3], LIMB - 1 - b[4]>>), S64(1))

\* Signed a < b: the limbs compared from the top, the top limb with its
\* sign bit inverted.
s64_lt(a, b) ==
    LET ta == (a[4] + (LIMB \div 2)) % LIMB
        tb == (b[4] + (LIMB \div 2)) % LIMB
    IN  \/ ta < tb
        \/ ta = tb /\ a[3] < b[3]
        \/ ta = tb /\ a[3] = b[3] /\ a[2] < b[2]
        \/ ta = tb /\ a[3] = b[3] /\ a[2] = b[2] /\ a[1] < b[1]

s64_le(a, b) == ~s64_lt(b, a)

\* The int that "int_field = s64_value" stores: the low 32 bits, read as a
\* signed number.
s64_to_int(a) ==
    (IF a[2] >= LIMB \div 2 THEN a[2] - LIMB ELSE a[2]) * LIMB + a[1]

\* The value is one an int can hold (it equals the promotion of its own low
\* 32 bits).
FitsInt(value) == S64(s64_to_int(value)) = value

S64_MAX == <<LIMB - 1, LIMB - 1, LIMB - 1, (LIMB \div 2) - 1>>
S64_MIN == <<0, 0, 0, LIMB \div 2>>
\* 2^32: the smallest positive value whose low 32 bits are all zero.
S64_2POW32 == <<0, 0, 1, 0>>

\* The parameter ids a caller may pass: the one id i915 knows, and another.
I915_CGRP_DEF_CONTEXT_PRIORITY == "I915_CGRP_DEF_CONTEXT_PRIORITY"
Params == {I915_CGRP_DEF_CONTEXT_PRIORITY, "UNKNOWN_PARAM"}

\* A value outside the int range whose low 32 bits are the minimum legal
\* priority.
WIDE_VAL == s64_sub(S64(I915_CONTEXT_MIN_USER_PRIORITY), S64_2POW32)

\* The int64 values a caller may pass: both ends of the legal range, the
\* first value beyond each end, and one value no int can hold.
Vals == {S64(I915_CONTEXT_MIN_USER_PRIORITY - 1),
         S64(I915_CONTEXT_MIN_USER_PRIORITY),
         S64(I915_CONTEXT_MAX_USER_PRIORITY),
         S64(I915_CONTEXT_MAX_USER_PRIORITY + 1),
         WIDE_VAL}

\* The set requests a caller may issue: every value for the known id, and one
\* request with an id the driver does not know.
Requests == {<<I915_CGRP_DEF_CONTEXT_PRIORITY, v>> : v \in Vals}
            \cup {<<"UNKNOWN_PARAM", S64(I915_CONTEXT_MAX_USER_PRIORITY)>>}

\* *val when the callee did not write it.
NoVal == <<>>

\* ------------------------------------------------------------------ state
VARIABLES
    cgroup_helper,  \* dev->cgroup_helper is set (drm_cgrp_helper_init ran)
    remove_params,  \* helper->remove_params is supplied by the driver
    registered,     \* cgrp_notifier is on cgroup_destroy_notifier_list
    hash_mutex,     \* 0, or the thread that holds helper->hash_mutex
    param_hash,     \* bucket -> sequence of records (hlist, head first)
    rec,            \* record -> [state, cgroup, priority]
    nalloc,         \* records handed out by alloc_params so far
    cgrpLive,       \* cgroup object -> it is a live cgroup
    shutdown,       \* "no", "running", "returned": drm_cgrp_helper_shutdown
    pc,             \* thread -> position
    op,             \* thread -> locals of the call it executes
    removeCalls,    \* record -> number of remove_params(record) calls
    kfreeCalls,     \* record -> number of kfree(record) calls
    uaf,            \* some call dereferenced a record after it was freed
    everSet,        \* cgroup -> update_param has stored a value for it
    nops,           \* calls started so far (bounded by MaxOps)
    \* the set-parameter ioctls of drm_cgroup.c and i915_cgroup.c
    variant,        \* "drm": drm_cgroup_setparam_ioctl, "i915": i915_...
    devcfg,         \* dev->cgroup: what the driver supports, its ranges,
                    \* and priv_key (0: no key obtained yet)
    privOf,         \* cgroup -> private data installed under the key, or 0
    priv,           \* private data -> [state, ref, priority_offset, display_boost]
    npriv,          \* private data allocated so far
    cgrpRef,        \* cgroup -> references held through cgroup_get_from_fd
    ipc,            \* thread -> position in the ioctl
    io              \* thread -> request and locals of the ioctl

helperVars == <<cgroup_helper, remove_params, registered, hash_mutex,
                param_hash, rec, nalloc, cgrpLive, shutdown, pc, op,
                removeCalls, kfreeCalls, uaf, everSet>>

ioctlVars == <<variant, devcfg, privOf, priv, npriv, cgrpRef, ipc, io>>

vars == <<helperVars, ioctlVars, nops>>

\* ---------------------------------------------------------------- helpers
Pow2(n) == 2 ^ n

Buckets == 0..(Pow2(HASH_BITS) - 1)

\* hash_32(val, bits): (val * GOLDEN_RATIO_32) >> (32 - bits) in 32-bit
\* unsigned arithmetic, computed on 16-bit halves (val < 2^15).
hash_32(val, bits) ==
    LET hi == GOLDEN_RATIO_32 \div 65536
        lo == GOLDEN_RATIO_32 % 65536
        x == val * lo
        y == (val * hi) % 65536
        upper16 == (y + (x \div 65536)) % 65536
    IN  upper16 \div Pow2(16 - bits)

\* cgrp->id of the cgroup objects; the ids of cgroups 1 and 2 share a bucket.
CgrpId(c) == 21 * (c - 1) + 1

\* hash_min(cgrp->id, HASH_BITS(param_hash)): the bucket of a cgroup.
BucketOf(c) == hash_32(CgrpId(c), HASH_BITS)

SeqToSet(s) == {s[i] : i \in 1..Len(s)}

\* The records linked into the hash table.
InTable == UNION {SeqToSet(param_hash[b]) : b \in Buckets}

IdleOp == [kind |-> "none", cgrp |-> 0, param |-> "none", val |-> S64(0),
           data |-> 0, ret |-> 0, out |-> NoVal, created |-> FALSE,
           updates |-> 0]

\* ------------------------------------------------------ i915 callbacks
\* i915_cgrp_update_param on a record whose priority is prio: the return
\* value and the priority afterwards.
i915_cgrp_update_param_early_store(prio, param, val) ==
    IF param # I915_CGRP_DEF_CONTEXT_PRIORITY
    THEN [ret |-> 0 - EINVAL, priority |-> prio]
    ELSE IF s64_lt(S64(I915_CONTEXT_MAX_USER_PRIORITY), val)
            \/ s64_lt(val, S64(I915_CONTEXT_MIN_USER_PRIORITY))
         THEN [ret |-> 0 - EINVAL, priority |-> s64_to_int(val)]
         ELSE [ret |-> 0, priority |-> s64_to_int(val)]

\* A range check that lets the first value above the maximum through.
i915_cgrp_update_param_off_by_one(prio, param, val) ==
    IF param # I915_CGRP_DEF_CONTEXT_PRIORITY
    THEN [ret |-> 0 - EINVAL, priority |-> prio]
    ELSE IF s64_lt(S64(I915_CONTEXT_MAX_USER_PRIORITY + 1), val)
            \/ s64_lt(val, S64(I915_CONTEXT_MIN_USER_PRIORITY))
         THEN [ret |-> 0 - EINVAL, priority |-> prio]
         ELSE [ret |-> 0, priority |-> s64_to_int(val)]

\* A range check without the lower bound.
i915_cgrp_update_param_no_lower_bound(prio, param, val) ==
    IF param # I915_CGRP_DEF_CONTEXT_PRIORITY
    THEN [ret |-> 0 - EINVAL, priority |-> prio]
    ELSE IF s64_lt(S64(I915_CONTEXT_MAX_USER_PRIORITY), val)
         THEN [ret |-> 0 - EINVAL, priority |-> prio]
         ELSE [ret |-> 0, priority |-> s64_to_int(val)]

i915_cgrp_update_param(prio, param, val) ==
    IF param # I915_CGRP_DEF_CONTEXT_PRIORITY
    THEN [ret |-> 0 - EINVAL, priority |-> prio]
    ELSE IF s64_lt(S64(I915_CONTEXT_MAX_USER_PRIORITY), val)
            \/ s64_lt(val, S64(I915_CONTEXT_MIN_USER_PRIORITY))
         THEN [ret |-> 0 - EINVAL, priority |-> prio]
         ELSE [ret |-> 0, priority |-> s64_to_int(val)]

\* A read that writes only the low ten bits of the priority.
i915_cgrp_read_param_low_bits(prio, param) ==
    IF param = I915_CGRP_DEF_CONTEXT_PRIORITY
    THEN [ret |-> 0, out |-> S64(prio % 1024)]
    ELSE [ret |-> 0 - EINVAL, out |-> NoVal]

\* i915_cgrp_read_param: the return value and *val (NoVal: not written);
\* "*val = idata->priority" promotes the int to int64_t.
i915_cgrp_read_param(prio, param) ==
    IF param = I915_CGRP_DEF_CONTEXT_PRIORITY
    THEN [ret |-> 0, out |-> S64(prio)]
    ELSE [ret |-> 0 - EINVAL, out |-> NoVal]

\* i915_cgroup_get_prio, lines 154-161: it calls drm_cgrp_helper_get_param
\* for the cgroup of the calling process with I915_CGRP_DEF_CONTEXT_PRIORITY
\* and maps the outcome (ret, *val) to a priority; "return prio" narrows the
\* int64_t to the int the function returns.
i915_cgroup_get_prio(ret, out) ==
    IF ret # 0 THEN I915_PRIORITY_NORMAL ELSE s64_to_int(out)

\* ------------------------------------------------------ bucket traversal
\* hash_for_each_possible(param_hash, data, node, cgrp->id) with the test
\* data->cgroup == cgrp.  An outcome is the index of the first matching node
\* (0: the loop ran off the end of the chain).  A node that was freed and is
\* still linked is read through a dangling pointer: the freed memory either
\* still holds what the record held (the comparison goes as it did before the
\* free) or has been overwritten (the comparison fails).  Records get fresh
\* addresses in this model, and a wild next pointer is not followed.
\* A test that compares hash keys: any record of the bucket matches.
NodeMayMatch_by_hash_key(r, c) ==
    /\ rec[r].state \in {"live", "freed"}
    /\ BucketOf(rec[r].cgroup) = BucketOf(c)

NodeMayMatch(r, c) ==
    /\ rec[r].state \in {"live", "freed"}
    /\ rec[r].cgroup = c

NodeMayMismatch(r, c) ==
    \/ rec[r].state = "freed"
    \/ rec[r].state = "live" /\ rec[r].cgroup # c

ScanOutcomes(c) ==
    LET s == param_hash[BucketOf(c)]
    IN  {i \in 0..Len(s) :
            /\ \A j \in 1..(IF i = 0 THEN Len(s) ELSE i - 1) :
                   NodeMayMismatch(s[j], c)
            /\ i # 0 => NodeMayMatch(s[i], c)}

\* The records the traversal with outcome i dereferenced.
Visited(c, i) ==
    LET s == param_hash[BucketOf(c)]
    IN  {s[j] : j \in 1..(IF i = 0 THEN Len(s) ELSE i)}

TouchesFreed(S) == \E r \in S : rec[r].state = "freed"

\* ------------------------------------------- requests of the ioctls
PrivIds == 1..MaxRecords

BadFd == 0

DRM_CGROUP_PARAM_PRIORITY_OFFSET == "PRIORITY_OFFSET"
DRM_CGROUP_PARAM_DISPBOOST_PRIORITY == "DISPBOOST_PRIORITY"
\* The values a request may carry: both ends of the range the ioctl accepts
\* for the priority offset and the first value beyond each end; the display
\* boost maximum is the first value beyond the priority offset range.
IoctlVals(var) ==
    IF var = "drm"
    THEN {0 - PrioOffsetLimit - 1, 0 - PrioOffsetLimit, PrioOffsetLimit,
          PrioOffsetLimit + 1, PrioOffsetLimit + 2}
    ELSE {I915_PRIORITY_MAX - I915_CONTEXT_MAX_USER_PRIORITY,
          I915_PRIORITY_MAX - I915_CONTEXT_MAX_USER_PRIORITY + 1,
          I915_PRIORITY_MIN + I915_CONTEXT_MIN_USER_PRIORITY,
          I915_PRIORITY_MIN + I915_CONTEXT_MIN_USER_PRIORITY - 1}

\* The values of a display boost request: the maximum and the next value.
DispboostVals == {PrioOffsetLimit + 1, PrioOffsetLimit + 2}

\* The <<param, value>> pairs a request may carry.
IoctlParamValues(var) ==
    {<<DRM_CGROUP_PARAM_PRIORITY_OFFSET, S64(v)>> : v \in IoctlVals(var)}
    \cup {<<DRM_CGROUP_PARAM_DISPBOOST_PRIORITY, S64(v)>> : v \in DispboostVals}
    \cup {<<"UNKNOWN_PARAM", S64(0)>>}

\* The requests of both ioctls.
IoctlRequests == IoctlParamValues("drm") \cup IoctlParamValues("i915")

\* The locals of an ioctl: the request, the outcome of the access check
\* ("granted" when the caller holds CAP_SYS_RESOURCE or is the DRM master,
\* "denied" otherwise), the cgroup and private data the call holds, and ret.
\* The request and the caller's credentials do not change during the call;
\* each part is drawn where the code first reads it and is "unread" before.
IdleIo == [flags |-> 0, param |-> "unread", value |-> S64(0),
           access |-> "unread",
           cgrp |-> 0, priv |-> 0, ret |-> 0, looked |-> FALSE]

\* The ioctl variables while only the helper library runs.
IoctlIdle ==
    /\ variant = "drm"
    /\ devcfg = [has_prio_offset |-> TRUE, has_dispboost |-> TRUE,
                 min_prio_offset |-> 0 - PrioOffsetLimit,
                 max_prio_offset |-> PrioOffsetLimit,
                 max_dispboost |-> PrioOffsetLimit + 1,
                 default_dispboost |-> 0, priv_key |-> 0]
    /\ privOf = [c \in Cgroups |-> 0]
    /\ priv = [k \in PrivIds |-> [state |-> "unalloc", ref |-> 0,
                                  priority_offset |-> 0, display_boost |-> 0]]
    /\ npriv = 0
    /\ cgrpRef = [c \in Cgroups |-> 0]
    /\ ipc = [t \in Threads |-> "idle"]
    /\ io = [t \in Threads |-> IdleIo]

\* ------------------------------------------------------------------- Init
\* The state after drm_cgrp_helper_init (called from i915_cgroup_init at
\* driver load): the helper is attached to the device, the table is empty,
\* the mutex is free and the notifier is registered.  i915_cgrp_helper
\* supplies no remove_params callback.
Init ==
    /\ cgroup_helper = TRUE
    /\ remove_params = FALSE
    /\ registered = TRUE
    /\ hash_mutex = 0
    /\ param_hash = [b \in Buckets |-> <<>>]
    /\ rec = [r \in RecIds |-> [state |-> "unalloc", cgroup |-> 0, priority |-> 0]]
    /\ nalloc = 0
    /\ cgrpLive = [c \in Cgroups |-> TRUE]
    /\ shutdown = "no"
    /\ pc = [t \in Threads |-> "idle"]
    /\ op = [t \in Threads |-> IdleOp]
    /\ removeCalls = [r \in RecIds |-> 0]
    /\ kfreeCalls = [r \in RecIds |-> 0]
    /\ uaf = FALSE
    /\ everSet = [c \in Cgroups |-> FALSE]
    /\ nops = 0
    /\ IoctlIdle

\* ------------------------------------------------------------ mutex
mutex_lock_unguarded(t) ==
    /\ hash_mutex' = t

\* mutex_lock(&helper->hash_mutex): taken only when nobody holds it.
mutex_lock(t) ==
    /\ hash_mutex = 0
    /\ hash_mutex' = t

\* mutex_unlock(&helper->hash_mutex)
mutex_unlock(t) ==
    /\ hash_mutex = t
    /\ hash_mutex' = 0

\* ----------------------------------------------- drm_cgrp_helper_set_param
\* The call is made (by the set-parameter ioctl, on a cgroup the caller
\* holds a reference to); WARN_ON(!helper) returns -EINVAL.
SetParamCall(t, c, p, v) ==
    /\ pc[t] = "idle"
    /\ nops < MaxOps
    /\ shutdown = "no"
    /\ cgrpLive[c]
    /\ nops' = nops + 1
    /\ op' = [op EXCEPT ![t] = [IdleOp EXCEPT !.kind = "set", !.cgrp = c,
                                 !.param = p, !.val = v,
                                 !.ret = IF cgroup_helper THEN 0 ELSE 0 - EINVAL]]
    /\ pc' = [pc EXCEPT ![t] = IF cgroup_helper THEN "set_lock" ELSE "idle"]
    /\ UNCHANGED <<ioctlVars, everSet>>
    /\ UNCHANGED <<cgroup_helper, remove_params, registered, hash_mutex,
                   param_hash, rec, nalloc, cgrpLive, shutdown, removeCalls,
                   kfreeCalls, uaf>>

\* A search that never finds the record (compares the wrong thing).
SetSearch_never_found(t) ==
    /\ pc[t] = "set_lock"
    /\ mutex_lock(t)
    /\ pc' = [pc EXCEPT ![t] = "set_alloc"]
    /\ UNCHANGED <<ioctlVars, everSet>>
    /\ UNCHANGED <<cgroup_helper, remove_params, registered,
                   param_hash, rec, nalloc, cgrpLive, shutdown, op,
                   removeCalls, kfreeCalls, uaf, nops>>

\* Lines 70-83: take the mutex and search the bucket for this cgroup's
\* record.
SetSearch(t) ==
    /\ pc[t] = "set_lock"
    /\ mutex_lock(t)
    /\ \E i \in ScanOutcomes(op[t].cgrp) :
          LET s == param_hash[BucketOf(op[t].cgrp)] IN
          /\ uaf' = (uaf \/ TouchesFreed(Visited(op[t].cgrp, i)))
          /\ IF i # 0
             THEN /\ op' = [op EXCEPT ![t].data = s[i]]
                  /\ pc' = [pc EXCEPT ![t] = "set_update"]
             ELSE /\ op' = op
                  /\ pc' = [pc EXCEPT ![t] = "set_alloc"]
    /\ UNCHANGED <<ioctlVars, everSet>>
    /\ UNCHANGED <<cgroup_helper, remove_params, registered,
                   param_hash, rec, nalloc, cgrpLive, shutdown, removeCalls,
                   kfreeCalls, nops>>

\* An allocation whose failure is not turned into the return value.
SetAlloc_failure_ret_unset(t) ==
    /\ pc[t] = "set_alloc"
    /\ \/ /\ op' = op
          /\ pc' = [pc EXCEPT ![t] = "set_unlock"]
          /\ UNCHANGED <<rec, nalloc, param_hash>>
       \/ /\ nalloc < MaxRecords
          /\ LET r == nalloc + 1
                 b == BucketOf(op[t].cgrp)
             IN  /\ nalloc' = r
                 /\ rec' = [rec EXCEPT ![r] = [state |-> "live",
                                               cgroup |-> op[t].cgrp,
                                               priority |-> 0]]
                 /\ param_hash' = [param_hash EXCEPT ![b] = <<r>> \o @]
                 /\ op' = [op EXCEPT ![t].data = r, ![t].created = TRUE]
                 /\ pc' = [pc EXCEPT ![t] = "set_update"]
    /\ UNCHANGED <<ioctlVars, everSet>>
    /\ UNCHANGED <<cgroup_helper, remove_params, registered, hash_mutex,
                   cgrpLive, shutdown, removeCalls, kfreeCalls, uaf, nops>>

\* An allocation failure that returns straight from the function, past the
\* "out:" label and its mutex_unlock.
SetAlloc_failure_skips_unlock(t) ==
    /\ pc[t] = "set_alloc"
    /\ \/ /\ op' = [op EXCEPT ![t] = IdleOp]
          /\ pc' = [pc EXCEPT ![t] = "idle"]
          /\ UNCHANGED <<rec, nalloc, param_hash>>
       \/ /\ nalloc < MaxRecords
          /\ LET r == nalloc + 1
                 b == BucketOf(op[t].cgrp)
             IN  /\ nalloc' = r
                 /\ rec' = [rec EXCEPT ![r] = [state |-> "live",
                                               cgroup |-> op[t].cgrp,
                                               priority |-> 0]]
                 /\ param_hash' = [param_hash EXCEPT ![b] = <<r>> \o @]
                 /\ op' = [op EXCEPT ![t].data = r, ![t].created = TRUE]
                 /\ pc' = [pc EXCEPT ![t] = "set_update"]
    /\ UNCHANGED <<ioctlVars, everSet>>
    /\ UNCHANGED <<cgroup_helper, remove_params, registered, hash_mutex,
                   cgrpLive, shutdown, removeCalls, kfreeCalls, uaf, nops>>

\* Lines 93-101: alloc_params (i915_cgrp_alloc_params: kzalloc, which may
\* fail), then stamp the record and hash_add it at the head of the bucket.
SetAlloc(t) ==
    /\ pc[t] = "set_alloc"
    /\ \/ /\ op' = [op EXCEPT ![t].ret = 0 - ENOMEM]
          /\ pc' = [pc EXCEPT ![t] = "set_unlock"]
          /\ UNCHANGED <<rec, nalloc, param_hash>>
       \/ /\ nalloc < MaxRecords
          /\ LET r == nalloc + 1
                 b == BucketOf(op[t].cgrp)
             IN  /\ nalloc' = r
                 /\ rec' = [rec EXCEPT ![r] = [state |-> "live",
                                               cgroup |-> op[t].cgrp,
                                               priority |-> 0]]
                 /\ param_hash' = [param_hash EXCEPT ![b] = <<r>> \o @]
                 /\ op' = [op EXCEPT ![t].data = r, ![t].created = TRUE]
                 /\ pc' = [pc EXCEPT ![t] = "set_update"]
    /\ UNCHANGED <<ioctlVars, everSet>>
    /\ UNCHANGED <<cgroup_helper, remove_params, registered, hash_mutex,
                   cgrpLive, shutdown, removeCalls, kfreeCalls, uaf, nops>>

\* A set_param that reports success for a record it has just created,
\* whatever update_param returned.
SetUpdate_created_returns_zero(t) ==
    /\ pc[t] = "set_update"
    /\ LET r == op[t].data
           u == i915_cgrp_update_param(rec[r].priority, op[t].param, op[t].val)
       IN  /\ rec' = [rec EXCEPT ![r].priority = u.priority]
           /\ op' = [op EXCEPT ![t].ret = IF op[t].created THEN 0 ELSE u.ret,
                               ![t].updates = @ + 1]
           /\ uaf' = (uaf \/ rec[r].state = "freed")
           /\ everSet' = [everSet EXCEPT ![op[t].cgrp] = @ \/ u.ret = 0]
    /\ pc' = [pc EXCEPT ![t] = "set_unlock"]
    /\ UNCHANGED ioctlVars
    /\ UNCHANGED <<cgroup_helper, remove_params, registered, hash_mutex,
                   param_hash, nalloc, cgrpLive, shutdown, removeCalls,
                   kfreeCalls, nops>>

\* Lines 80 and 103: ret = helper->update_param(data, param, val).  The
\* return value is in op[t].ret from here on; SetUnlock ends the call.
\* op[t].updates counts the calls of update_param this call has made.
SetUpdate(t) ==
    /\ pc[t] = "set_update"
    /\ LET r == op[t].data
           u == i915_cgrp_update_param(rec[r].priority, op[t].param, op[t].val)
       IN  /\ rec' = [rec EXCEPT ![r].priority = u.priority]
           /\ op' = [op EXCEPT ![t].ret = u.ret, ![t].updates = @ + 1]
           /\ uaf' = (uaf \/ rec[r].state = "freed")
           /\ everSet' = [everSet EXCEPT ![op[t].cgrp] = @ \/ u.ret = 0]
    /\ pc' = [pc EXCEPT ![t] = "set_unlock"]
    /\ UNCHANGED ioctlVars
    /\ UNCHANGED <<cgroup_helper, remove_params, registered, hash_mutex,
                   param_hash, nalloc, cgrpLive, shutdown, removeCalls,
                   kfreeCalls, nops>>

SetUnlock(t) ==
    /\ pc[t] = "set_unlock"
    /\ mutex_unlock(t)
    /\ pc' = [pc EXCEPT ![t] = "idle"]
    /\ op' = [op EXCEPT ![t] = IdleOp]
    /\ UNCHANGED <<ioctlVars, everSet>>
    /\ UNCHANGED <<cgroup_helper, remove_params, registered, param_hash, rec,
                   nalloc, cgrpLive, shutdown, removeCalls, kfreeCalls,
                   uaf, nops>>

\* ----------------------------------------------- drm_cgrp_helper_get_param
GetParamCall(t, c, p) ==
    /\ pc[t] = "idle"
    /\ nops < MaxOps
    /\ shutdown = "no"
    /\ cgrpLive[c]
    /\ nops' = nops + 1
    /\ op' = [op EXCEPT ![t] = [IdleOp EXCEPT !.kind = "get", !.cgrp = c,
                                 !.param = p, !.ret = 0 - EINVAL]]
    /\ pc' = [pc EXCEPT ![t] = IF cgroup_helper THEN "get_lock" ELSE "idle"]
    /\ UNCHANGED <<ioctlVars, everSet>>
    /\ UNCHANGED <<cgroup_helper, remove_params, registered, hash_mutex,
                   param_hash, rec, nalloc, cgrpLive, shutdown, removeCalls,
                   kfreeCalls, uaf>>

\* A get that allocates and inserts a record for a cgroup that has none.
GetSearch_creates_on_miss(t) ==
    /\ pc[t] = "get_lock"
    /\ mutex_lock(t)
    /\ \E i \in ScanOutcomes(op[t].cgrp) :
          LET s == param_hash[BucketOf(op[t].cgrp)] IN
          /\ uaf' = (uaf \/ TouchesFreed(Visited(op[t].cgrp, i)))
          /\ IF i # 0
             THEN /\ UNCHANGED <<param_hash, rec, nalloc>>
                  /\ LET rd == i915_cgrp_read_param(rec[s[i]].priority, op[t].param)
                     IN  op' = [op EXCEPT ![t].data = s[i],
                                          ![t].ret = rd.ret,
                                          ![t].out = rd.out]
             ELSE /\ op' = [op EXCEPT ![t].ret = 0 - EINVAL]
                  /\ IF nalloc < MaxRecords
                     THEN LET r == nalloc + 1
                              b == BucketOf(op[t].cgrp)
                          IN  /\ nalloc' = r
                              /\ rec' = [rec EXCEPT ![r] =
                                           [state |-> "live",
                                            cgroup |-> op[t].cgrp,
                                            priority |-> 0]]
                              /\ param_hash' =
                                    [param_hash EXCEPT ![b] = <<r>> \o @]
                     ELSE UNCHANGED <<param_hash, rec, nalloc>>
    /\ pc' = [pc EXCEPT ![t] = "get_unlock"]
    /\ UNCHANGED <<ioctlVars, everSet>>
    /\ UNCHANGED <<cgroup_helper, remove_params, registered,
                   cgrpLive, shutdown, removeCalls, kfreeCalls, nops>>


\* Lines 141-149: take the mutex; ret = -EINVAL; on a match
\* ret = read_param(data, param, val).
GetSearch(t) ==
    /\ pc[t] = "get_lock"
    /\ mutex_lock(t)
    /\ \E i \in ScanOutcomes(op[t].cgrp) :
          LET s == param_hash[BucketOf(op[t].cgrp)] IN
          /\ uaf' = (uaf \/ TouchesFreed(Visited(op[t].cgrp, i)))
          /\ IF i # 0
             THEN LET rd == i915_cgrp_read_param(rec[s[i]].priority, op[t].param)
                  IN  op' = [op EXCEPT ![t].data = s[i], ![t].ret = rd.ret,
                                       ![t].out = rd.out]
             ELSE op' = [op EXCEPT ![t].ret = 0 - EINVAL]
    /\ pc' = [pc EXCEPT ![t] = "get_unlock"]
    /\ UNCHANGED <<ioctlVars, everSet>>
    /\ UNCHANGED <<cgroup_helper, remove_params, registered,
                   param_hash, rec, nalloc, cgrpLive, shutdown, removeCalls,
                   kfreeCalls, nops>>

GetUnlock(t) ==
    /\ pc[t] = "get_unlock"
    /\ mutex_unlock(t)
    /\ pc' = [pc EXCEPT ![t] = "idle"]
    /\ op' = [op EXCEPT ![t] = IdleOp]
    /\ UNCHANGED <<ioctlVars, everSet>>
    /\ UNCHANGED <<cgroup_helper, remove_params, registered, param_hash, rec,
                   nalloc, cgrpLive, shutdown, removeCalls, kfreeCalls,
                   uaf, nops>>

\* ------------------------------------------------------------ cleanup
\* "if (helper->remove_params) helper->remove_params(data); else kfree(data);"
\* applied to every record of R: the counters and the records afterwards.
RemoveCallsAfter(R) ==
    [r \in RecIds |-> IF r \in R /\ remove_params THEN removeCalls[r] + 1
                      ELSE removeCalls[r]]

KfreeCallsAfter(R) ==
    [r \in RecIds |-> IF r \in R /\ ~remove_params THEN kfreeCalls[r] + 1
                      ELSE kfreeCalls[r]]

RecAfterCleanup(R) ==
    [r \in RecIds |-> IF r \in R THEN [rec[r] EXCEPT !.state = "freed"]
                      ELSE rec[r]]

\* ------------------------------------------------------- cgroup subsystem
Positions == {"idle", "set_lock", "set_alloc", "set_update",
              "set_unlock", "get_lock", "get_unlock", "cd_lock", "cd_unlock",
              "sd_lock", "sd_unlock", "sd_unreg"}

InNotifier(t) == pc[t] \in {"cd_lock", "cd_unlock"}

InCaller(t) == pc[t] \in {"set_lock", "set_alloc", "set_update", "set_unlock",
                          "get_lock", "get_unlock"}

\* The cgroup subsystem destroys cgroup c and runs the destruction notifier
\* chain: cgrp_destroyed is called if the helper's notifier is on the chain.
\* A set or get call holds a reference to its cgroup, so the cgroup is not
\* destroyed under it.
CgroupDestroy(t, c) ==
    /\ pc[t] = "idle"
    /\ nops < MaxOps
    /\ cgrpLive[c]
    /\ \A u \in Threads : InCaller(u) => op[u].cgrp # c
    /\ nops' = nops + 1
    /\ cgrpLive' = [cgrpLive EXCEPT ![c] = FALSE]
    /\ IF registered
       THEN /\ op' = [op EXCEPT ![t] = [IdleOp EXCEPT !.kind = "destroyed",
                                                      !.cgrp = c]]
            /\ pc' = [pc EXCEPT ![t] = "cd_lock"]
       ELSE UNCHANGED <<op, pc>>
    /\ UNCHANGED <<ioctlVars, everSet>>
    /\ UNCHANGED <<cgroup_helper, remove_params, registered, hash_mutex,
                   param_hash, rec, nalloc, shutdown, removeCalls, kfreeCalls,
                   uaf>>

\* A new cgroup is created in the memory (and with the id) of a destroyed
\* one, once the notification of the old one's destruction is over.
CgroupCreate(c) ==
    /\ ~cgrpLive[c]
    /\ \A t \in Threads : InNotifier(t) => op[t].cgrp # c
    /\ UNCHANGED nops
    /\ cgrpLive' = [cgrpLive EXCEPT ![c] = TRUE]
    /\ everSet' = [everSet EXCEPT ![c] = FALSE]
    /\ UNCHANGED ioctlVars
    /\ UNCHANGED <<cgroup_helper, remove_params, registered, hash_mutex,
                   param_hash, rec, nalloc, shutdown, pc, op, removeCalls,
                   kfreeCalls, uaf>>

\* ---------------------------------------------------------- cgrp_destroyed
\* A notifier that cleans up every record of the cgroup's bucket, without
\* the test data->cgroup == cgrp.
DestroyedBody_whole_bucket(t) ==
    /\ pc[t] = "cd_lock"
    /\ mutex_lock(t)
    /\ LET s == param_hash[BucketOf(op[t].cgrp)]
           R == SeqToSet(s)
       IN  /\ uaf' = (uaf \/ TouchesFreed(R))
           /\ removeCalls' = RemoveCallsAfter(R)
           /\ kfreeCalls' = KfreeCallsAfter(R)
           /\ rec' = RecAfterCleanup(R)
           /\ op' = [op EXCEPT ![t].data = IF s = <<>> THEN 0 ELSE s[1]]
    /\ pc' = [pc EXCEPT ![t] = "cd_unlock"]
    /\ UNCHANGED <<ioctlVars, everSet>>
    /\ UNCHANGED <<cgroup_helper, remove_params, registered,
                   param_hash, nalloc, cgrpLive, shutdown, nops>>

\* Lines 172-187: take the mutex, find the cgroup's record and hand it to remove_params or
\* kfree.  The record is not unlinked from its bucket.
DestroyedBody(t) ==
    /\ pc[t] = "cd_lock"
    /\ mutex_lock(t)
    /\ \E i \in ScanOutcomes(op[t].cgrp) :
          LET s == param_hash[BucketOf(op[t].cgrp)]
              R == IF i = 0 THEN {} ELSE {s[i]}
          IN  /\ uaf' = (uaf \/ TouchesFreed(Visited(op[t].cgrp, i)))
              /\ removeCalls' = RemoveCallsAfter(R)
              /\ kfreeCalls' = KfreeCallsAfter(R)
              /\ rec' = RecAfterCleanup(R)
              /\ op' = [op EXCEPT ![t].data = IF i = 0 THEN 0 ELSE s[i]]
    /\ pc' = [pc EXCEPT ![t] = "cd_unlock"]
    /\ UNCHANGED <<ioctlVars, everSet>>
    /\ UNCHANGED <<cgroup_helper, remove_params, registered,
                   param_hash, nalloc, cgrpLive, shutdown, nops>>

DestroyedUnlock(t) ==
    /\ pc[t] = "cd_unlock"
    /\ mutex_unlock(t)
    /\ pc' = [pc EXCEPT ![t] = "idle"]
    /\ op' = [op EXCEPT ![t] = IdleOp]
    /\ UNCHANGED <<ioctlVars, everSet>>
    /\ UNCHANGED <<cgroup_helper, remove_params, registered, param_hash, rec,
                   nalloc, cgrpLive, shutdown, removeCalls, kfreeCalls,
                   uaf, nops>>

\* ------------------------------------------------ drm_cgrp_helper_shutdown
\* Called by i915_cgroup_shutdown at driver unload: no set or get call is
\* executing then and none starts afterwards; destruction notifications come
\* from the cgroup subsystem at any time.
\* A shutdown that unregisters the notifier on entry, before the drain.
ShutdownCall_unregisters_first(t) ==
    /\ pc[t] = "idle"
    /\ cgroup_helper
    /\ shutdown = "no"
    /\ \A u \in Threads : ~InCaller(u)
    /\ \A u \in Threads : ~InNotifier(u)
    /\ registered' = FALSE
    /\ shutdown' = "running"
    /\ op' = [op EXCEPT ![t] = [IdleOp EXCEPT !.kind = "shutdown"]]
    /\ pc' = [pc EXCEPT ![t] = "sd_lock"]
    /\ UNCHANGED <<ioctlVars, everSet>>
    /\ UNCHANGED <<cgroup_helper, remove_params, hash_mutex,
                   param_hash, rec, nalloc, cgrpLive, removeCalls, kfreeCalls,
                   uaf, nops>>

ShutdownCall(t) ==
    /\ pc[t] = "idle"
    /\ cgroup_helper
    /\ shutdown = "no"
    /\ \A u \in Threads : ~InCaller(u)
    /\ shutdown' = "running"
    /\ op' = [op EXCEPT ![t] = [IdleOp EXCEPT !.kind = "shutdown"]]
    /\ pc' = [pc EXCEPT ![t] = "sd_lock"]
    /\ UNCHANGED <<ioctlVars, everSet>>
    /\ UNCHANGED <<cgroup_helper, remove_params, registered, hash_mutex,
                   param_hash, rec, nalloc, cgrpLive, removeCalls, kfreeCalls,
                   uaf, nops>>

\* A drain that hands the records to the cleanup but leaves them linked.
ShutdownDrain_no_hash_del(t) ==
    /\ pc[t] = "sd_lock"
    /\ mutex_lock(t)
    /\ uaf' = (uaf \/ TouchesFreed(InTable))
    /\ removeCalls' = RemoveCallsAfter(InTable)
    /\ kfreeCalls' = KfreeCallsAfter(InTable)
    /\ rec' = RecAfterCleanup(InTable)
    /\ pc' = [pc EXCEPT ![t] = "sd_unlock"]
    /\ UNCHANGED <<ioctlVars, everSet>>
    /\ UNCHANGED <<cgroup_helper, remove_params, registered,
                   param_hash, op, nalloc, cgrpLive, shutdown, nops>>

\* Lines 231-238: take the mutex; hash_for_each_safe over every bucket: hash_del the record,
\* then remove_params or kfree it.
ShutdownDrain(t) ==
    /\ pc[t] = "sd_lock"
    /\ mutex_lock(t)
    /\ uaf' = (uaf \/ TouchesFreed(InTable))
    /\ removeCalls' = RemoveCallsAfter(InTable)
    /\ kfreeCalls' = KfreeCallsAfter(InTable)
    /\ rec' = RecAfterCleanup(InTable)
    /\ param_hash' = [b \in Buckets |-> <<>>]
    /\ pc' = [pc EXCEPT ![t] = "sd_unlock"]
    /\ UNCHANGED <<ioctlVars, everSet>>
    /\ UNCHANGED <<cgroup_helper, remove_params, registered, op,
                   nalloc, cgrpLive, shutdown, nops>>

ShutdownUnlock(t) ==
    /\ pc[t] = "sd_unlock"
    /\ mutex_unlock(t)
    /\ pc' = [pc EXCEPT ![t] = "sd_unreg"]
    /\ UNCHANGED <<ioctlVars, everSet>>
    /\ UNCHANGED <<cgroup_helper, remove_params, registered, param_hash, rec,
                   nalloc, cgrpLive, shutdown, op, removeCalls, kfreeCalls,
                   uaf, nops>>

\* Lines 241-242: blocking_notifier_chain_unregister, which waits for the
\* notifier calls in progress; then the function returns.
ShutdownUnregister(t) ==
    /\ pc[t] = "sd_unreg"
    /\ \A u \in Threads : ~InNotifier(u)
    /\ registered' = FALSE
    /\ shutdown' = "returned"
    /\ pc' = [pc EXCEPT ![t] = "idle"]
    /\ op' = [op EXCEPT ![t] = IdleOp]
    /\ UNCHANGED <<ioctlVars, everSet>>
    /\ UNCHANGED <<cgroup_helper, remove_params, hash_mutex, param_hash, rec,
                   nalloc, cgrpLive, removeCalls, kfreeCalls, uaf, nops>>

\* ------------------------------------------------------------------
\* The set-parameter ioctls: drm_cgroup_setparam_ioctl (drm_cgroup.c) and
\* i915_cgroup_setparam_ioctl (i915_cgroup.c)
\* ------------------------------------------------------------------
\* The state after drm_cgroup_init / i915_cgroup_init obtained a private-data
\* key: no cgroup has private data.  The driver has told the DRM core which
\* parameters it honours.
IoctlInit ==
    /\ cgroup_helper = FALSE
    /\ remove_params = FALSE
    /\ registered = FALSE
    /\ hash_mutex = 0
    /\ param_hash = [b \in Buckets |-> <<>>]
    /\ rec = [r \in RecIds |-> [state |-> "unalloc", cgroup |-> 0, priority |-> 0]]
    /\ nalloc = 0
    /\ cgrpLive = [c \in Cgroups |-> TRUE]
    /\ shutdown = "no"
    /\ pc = [t \in Threads |-> "idle"]
    /\ op = [t \in Threads |-> IdleOp]
    /\ removeCalls = [r \in RecIds |-> 0]
    /\ kfreeCalls = [r \in RecIds |-> 0]
    /\ uaf = FALSE
    /\ everSet = [c \in Cgroups |-> FALSE]
    /\ nops = 0
    /\ variant \in {"drm", "i915"}
    /\ devcfg \in [has_prio_offset : BOOLEAN, has_dispboost : BOOLEAN,
                   min_prio_offset : {0 - PrioOffsetLimit},
                   max_prio_offset : {PrioOffsetLimit},
                   max_dispboost : {PrioOffsetLimit + 1},
                   default_dispboost : {1}, priv_key : {1}]
    /\ variant = "i915" => (devcfg.has_prio_offset /\ devcfg.has_dispboost)
    /\ privOf = [c \in Cgroups |-> 0]
    /\ priv = [k \in PrivIds |-> [state |-> "unalloc", ref |-> 0,
                                  priority_offset |-> 0, display_boost |-> 0]]
    /\ npriv = 0
    /\ cgrpRef = [c \in Cgroups |-> 0]
    /\ ipc = [t \in Threads |-> "idle"]
    /\ io = [t \in Threads |-> IdleIo]

\* An entry that resolves the descriptor before it looks at the flags.
IoctlEntry_resolves_fd_first(t, flags, fd) ==
    /\ ipc[t] = "idle"
    /\ nops < MaxIoctls
    /\ nops' = nops + 1
    /\ LET r == [IdleIo EXCEPT !.flags = flags]
           resolves == fd \in Cgroups /\ cgrpLive[fd]
       IN  IF ~resolves
           THEN /\ io' = [io EXCEPT ![t] = [r EXCEPT !.ret = 0 - EBADF]]
                /\ ipc' = [ipc EXCEPT ![t] = "io_ret"]
                /\ UNCHANGED cgrpRef
           ELSE IF flags # 0
           THEN /\ io' = [io EXCEPT ![t] = [r EXCEPT !.cgrp = fd,
                                                     !.ret = 0 - EINVAL]]
                /\ ipc' = [ipc EXCEPT ![t] = "io_out"]
                /\ cgrpRef' = [cgrpRef EXCEPT ![fd] = @ + 1]
           ELSE /\ io' = [io EXCEPT ![t] = [r EXCEPT !.cgrp = fd]]
                /\ ipc' = [ipc EXCEPT ![t] = "io_auth"]
                /\ cgrpRef' = [cgrpRef EXCEPT ![fd] = @ + 1]
    /\ UNCHANGED <<helperVars, variant, devcfg, privOf, priv, npriv>>

\* Entry of the ioctl: "if (req->flags) return -EINVAL;" and
\* "cgrp = cgroup_get_from_fd(req->cgroup_fd); if (IS_ERR(cgrp)) return
\* PTR_ERR(cgrp);".  A descriptor of a live cgroup yields the cgroup with a
\* reference taken; any other descriptor yields -EBADF.
IoctlEntry(t, flags, fd) ==
    /\ ipc[t] = "idle"
    /\ nops < MaxIoctls
    /\ nops' = nops + 1
    /\ LET r == [IdleIo EXCEPT !.flags = flags]
           resolves == fd \in Cgroups /\ cgrpLive[fd]
       IN  IF flags # 0
           THEN /\ io' = [io EXCEPT ![t] = [r EXCEPT !.ret = 0 - EINVAL]]
                /\ ipc' = [ipc EXCEPT ![t] = "io_ret"]
                /\ UNCHANGED cgrpRef
           ELSE IF ~resolves
           THEN /\ io' = [io EXCEPT ![t] = [r EXCEPT !.ret = 0 - EBADF]]
                /\ ipc' = [ipc EXCEPT ![t] = "io_ret"]
                /\ UNCHANGED cgrpRef
           ELSE /\ io' = [io EXCEPT ![t] = [r EXCEPT !.cgrp = fd]]
                /\ ipc' = [ipc EXCEPT ![t] = "io_auth"]
                /\ cgrpRef' = [cgrpRef EXCEPT ![fd] = @ + 1]
    /\ UNCHANGED <<helperVars, variant, devcfg, privOf, priv, npriv>>

\* An access check that returns from the function when it denies, instead
\* of jumping to the cgroup_put at "out".
IoctlAuth_returns_directly(t, capable, master) ==
    /\ ipc[t] = "io_auth"
    /\ IF ~capable /\ ~master
       THEN /\ io' = [io EXCEPT ![t].access = "denied"]
            /\ ipc' = [ipc EXCEPT ![t] = "io_ret"]
       ELSE /\ io' = [io EXCEPT ![t].access = "granted"]
            /\ ipc' = [ipc EXCEPT ![t] = "io_goc"]
    /\ UNCHANGED <<helperVars, variant, devcfg, privOf, priv, npriv, cgrpRef,
                   nops>>

\* An access check whose verdict is ignored: the denied caller goes on to
\* get_or_create_cgroup_data.
IoctlAuth_verdict_ignored(t, capable, master) ==
    /\ ipc[t] = "io_auth"
    /\ IF ~capable /\ ~master
       THEN /\ io' = [io EXCEPT ![t].access = "denied"]
            /\ ipc' = [ipc EXCEPT ![t] = "io_goc"]
       ELSE /\ io' = [io EXCEPT ![t].access = "granted"]
            /\ ipc' = [ipc EXCEPT ![t] = "io_goc"]
    /\ UNCHANGED <<helperVars, variant, devcfg, privOf, priv, npriv, cgrpRef,
                   nops>>

\* "if (!capable(CAP_SYS_RESOURCE) && !drm_is_current_master(file)) goto out;"
\* with ret still 0.
IoctlAuth(t, capable, master) ==
    /\ ipc[t] = "io_auth"
    /\ IF ~capable /\ ~master
       THEN /\ io' = [io EXCEPT ![t].access = "denied"]
            /\ ipc' = [ipc EXCEPT ![t] = "io_out"]
       ELSE /\ io' = [io EXCEPT ![t].access = "granted"]
            /\ ipc' = [ipc EXCEPT ![t] = "io_goc"]
    /\ UNCHANGED <<helperVars, variant, devcfg, privOf, priv, npriv, cgrpRef,
                   nops>>

\* cgroup_priv_get(cgrp, key): the private data installed for the cgroup,
\* with a reference taken for the caller, or none.
cgroup_priv_get(c) == privOf[c]

\* A creation path on which the store takes no reference of its own: the
\* record is installed with the count kref_init gave it.
get_or_create_cgroup_data_install_borrows(t) ==
    /\ ipc[t] = "io_goc"
    /\ LET c == io[t].cgrp
           k == cgroup_priv_get(c)
       IN  IF k # 0
           THEN /\ priv' = [priv EXCEPT ![k].ref = @ + 1]
                /\ io' = [io EXCEPT ![t].priv = k]
                /\ ipc' = [ipc EXCEPT ![t] = "io_switch"]
                /\ UNCHANGED <<privOf, npriv>>
           ELSE \/ /\ io' = [io EXCEPT ![t].ret = 0 - ENOMEM]
                   /\ ipc' = [ipc EXCEPT ![t] = "io_out"]
                   /\ UNCHANGED <<priv, privOf, npriv>>
                \/ /\ npriv < MaxRecords
                   /\ npriv' = npriv + 1
                   /\ priv' = [priv EXCEPT ![npriv + 1] =
                                 [state |-> "live", ref |-> 1,
                                  priority_offset |-> 0,
                                  display_boost |->
                                      IF variant = "drm"
                                      THEN devcfg.default_dispboost ELSE 0]]
                   /\ privOf' = [privOf EXCEPT ![c] = npriv + 1]
                   /\ io' = [io EXCEPT ![t].priv = npriv + 1]
                   /\ ipc' = [ipc EXCEPT ![t] = "io_switch"]
    /\ UNCHANGED <<helperVars, variant, devcfg, cgrpRef, nops>>

\* A creation path that leaves the record as kzalloc returned it, without
\* "priv->display_boost = dev->cgroup.default_dispboost".
get_or_create_cgroup_data_zeroed(t) ==
    /\ ipc[t] = "io_goc"
    /\ LET c == io[t].cgrp
           k == cgroup_priv_get(c)
       IN  IF k # 0
           THEN /\ priv' = [priv EXCEPT ![k].ref = @ + 1]
                /\ io' = [io EXCEPT ![t].priv = k]
                /\ ipc' = [ipc EXCEPT ![t] = "io_switch"]
                /\ UNCHANGED <<privOf, npriv>>
           ELSE \/ /\ io' = [io EXCEPT ![t].ret = 0 - ENOMEM]
                   /\ ipc' = [ipc EXCEPT ![t] = "io_out"]
                   /\ UNCHANGED <<priv, privOf, npriv>>
                \/ /\ npriv < MaxRecords
                   /\ npriv' = npriv + 1
                   /\ priv' = [priv EXCEPT ![npriv + 1] =
                                 [state |-> "live", ref |-> 2,
                                  priority_offset |-> 0,
                                  display_boost |-> 0]]
                   /\ privOf' = [privOf EXCEPT ![c] = npriv + 1]
                   /\ io' = [io EXCEPT ![t].priv = npriv + 1]
                   /\ ipc' = [ipc EXCEPT ![t] = "io_switch"]
    /\ UNCHANGED <<helperVars, variant, devcfg, cgrpRef, nops>>

\* get_or_create_cgroup_data, all of it under dev->cgroup.lock (only this
\* function takes that lock): the private data of the cgroup, created and
\* installed when there was none; kzalloc may fail with -ENOMEM.  The drm
\* variant starts display_boost at dev->cgroup.default_dispboost.
get_or_create_cgroup_data(t) ==
    /\ ipc[t] = "io_goc"
    /\ LET c == io[t].cgrp
           k == cgroup_priv_get(c)
       IN  IF k # 0
           THEN /\ priv' = [priv EXCEPT ![k].ref = @ + 1]
                /\ io' = [io EXCEPT ![t].priv = k]
                /\ ipc' = [ipc EXCEPT ![t] = "io_switch"]
                /\ UNCHANGED <<privOf, npriv>>
           ELSE \/ /\ io' = [io EXCEPT ![t].ret = 0 - ENOMEM]
                   /\ ipc' = [ipc EXCEPT ![t] = "io_out"]
                   /\ UNCHANGED <<priv, privOf, npriv>>
                \/ /\ npriv < MaxRecords
                   /\ npriv' = npriv + 1
                   /\ priv' = [priv EXCEPT ![npriv + 1] =
                                 [state |-> "live", ref |-> 2,
                                  priority_offset |-> 0,
                                  display_boost |->
                                      IF variant = "drm"
                                      THEN devcfg.default_dispboost ELSE 0]]
                   /\ privOf' = [privOf EXCEPT ![c] = npriv + 1]
                   /\ io' = [io EXCEPT ![t].priv = npriv + 1]
                   /\ ipc' = [ipc EXCEPT ![t] = "io_switch"]
    /\ UNCHANGED <<helperVars, variant, devcfg, cgrpRef, nops>>

\* The switch of drm_cgroup_setparam_ioctl on a record with fields p: the
\* return value and the fields afterwards.  req->value is an __s64; the int
\* limits are promoted to 64 bits for the comparison and the accepted value
\* is narrowed to the int field.
drm_switch(p, param, value) ==
    IF param = DRM_CGROUP_PARAM_PRIORITY_OFFSET
    THEN IF ~devcfg.has_prio_offset
         THEN [ret |-> 0 - EINVAL, p |-> p]
         ELSE IF s64_lt(value, S64(devcfg.min_prio_offset))
                 \/ s64_lt(S64(devcfg.max_prio_offset), value)
         THEN [ret |-> 0 - EINVAL, p |-> p]
         ELSE [ret |-> 0,
               p |-> [p EXCEPT !.priority_offset = s64_to_int(value)]]
    ELSE IF param = DRM_CGROUP_PARAM_DISPBOOST_PRIORITY
    THEN IF ~devcfg.has_dispboost
         THEN [ret |-> 0 - EINVAL, p |-> p]
         ELSE IF s64_lt(S64(devcfg.max_dispboost), value)
         THEN [ret |-> 0 - EINVAL, p |-> p]
         ELSE [ret |-> 0,
               p |-> [p EXCEPT !.display_boost = s64_to_int(value)]]
    ELSE [ret |-> 0 - EINVAL, p |-> p]

\* The switch of i915_cgroup_setparam_ioctl.
i915_switch(p, param, value) ==
    IF param = DRM_CGROUP_PARAM_PRIORITY_OFFSET
    THEN IF /\ s64_le(s64_add(value, S64(I915_CONTEXT_MAX_USER_PRIORITY)),
                       S64(I915_PRIORITY_MAX))
            /\ s64_le(S64(I915_PRIORITY_MIN),
                       s64_sub(value, S64(I915_CONTEXT_MIN_USER_PRIORITY)))
         THEN [ret |-> 0,
               p |-> [p EXCEPT !.priority_offset = s64_to_int(value)]]
         ELSE [ret |-> 0 - EINVAL, p |-> p]
    ELSE [ret |-> 0 - EINVAL, p |-> p]

\* "switch (req->param) { ... }", executed without the lock, for a request
\* that carries param and value.
IoctlSwitchStep(t, param, value) ==
    /\ ipc[t] = "io_switch"
    /\ LET k == io[t].priv
           w == IF variant = "drm"
                THEN drm_switch(priv[k], param, value)
                ELSE i915_switch(priv[k], param, value)
       IN  /\ priv' = [priv EXCEPT ![k] = w.p]
           /\ io' = [io EXCEPT ![t].param = param, ![t].value = value,
                               ![t].ret = w.ret]
    /\ ipc' = [ipc EXCEPT ![t] = "io_put"]
    /\ UNCHANGED <<helperVars, variant, devcfg, privOf, npriv, cgrpRef, nops>>

IoctlSwitch(t, param, value) ==
    /\ ipc[t] = "io_switch"
    /\ <<param, value>> \in IoctlParamValues(variant)
    /\ IoctlSwitchStep(t, param, value)

\* "kref_put(&priv->ref, drm_cgroup_free);": the last reference frees.
IoctlPut(t) ==
    /\ ipc[t] = "io_put"
    /\ LET k == io[t].priv
       IN  priv' = [priv EXCEPT ![k].ref = @ - 1,
                                ![k].state = IF priv[k].ref = 1 THEN "freed"
                                             ELSE @]
    /\ ipc' = [ipc EXCEPT ![t] = "io_out"]
    \* req->param and req->value are not read after the switch: only ret,
    \* the verdict and the cgroup pointer are live from here on.
    /\ io' = [io EXCEPT ![t].param = IdleIo.param, ![t].value = IdleIo.value]
    /\ UNCHANGED <<helperVars, variant, devcfg, privOf, npriv, cgrpRef,
                   nops>>

\* "out: cgroup_put(cgrp); return ret;"
IoctlOut(t) ==
    /\ ipc[t] = "io_out"
    /\ cgrpRef' = [cgrpRef EXCEPT ![io[t].cgrp] = @ - 1]
    /\ ipc' = [ipc EXCEPT ![t] = "io_ret"]
    /\ UNCHANGED <<helperVars, variant, devcfg, privOf, priv, npriv, io, nops>>

\* The caller has the return value; the thread may issue another ioctl.
IoctlReturn(t) ==
    /\ ipc[t] = "io_ret"
    /\ ipc' = [ipc EXCEPT ![t] = "idle"]
    /\ io' = [io EXCEPT ![t] = IdleIo]
    /\ UNCHANGED <<helperVars, variant, devcfg, privOf, priv, npriv, cgrpRef,
                   nops>>

\* ------------------------------------------------------------------
\* The current-group accessors generated by CGROUP_GET:
\* drm_cgroup_get_current_prio_offset, drm_cgroup_get_current_dispboost
\* (drm_cgroup.c) and i915_cgroup_get_current_prio_offset (i915_cgroup.c)
\* ------------------------------------------------------------------
AccessorNames(var) ==
    IF var = "drm" THEN {"prio_offset", "dispboost"} ELSE {"prio_offset"}

\* "int val = def;"
AccessorDefault(name) ==
    IF name = "prio_offset" THEN 0 ELSE devcfg.default_dispboost

\* "cgrp_ref_to_drm(ref)->field"
AccessorField(p, name) ==
    IF name = "prio_offset" THEN p.priority_offset ELSE p.display_boost

\* cgroup_priv_get_current(key): the private data installed for the cgroup
\* of the calling process, with a reference taken for the caller, or none.
cgroup_priv_get_current(c) == cgroup_priv_get(c)

\* An accessor without the test of the key: it always looks the data up.
GetCurrentCall_no_key_check(t, name, c) ==
    /\ ipc[t] = "idle"
    /\ nops < MaxIoctls
    /\ name \in AccessorNames(variant)
    /\ cgrpLive[c]
    /\ nops' = nops + 1
    /\ LET r == [IdleIo EXCEPT !.param = name, !.cgrp = c,
                               !.ret = AccessorDefault(name)]
           k == cgroup_priv_get_current(c)
       IN  IF k = 0
           THEN /\ io' = [io EXCEPT ![t] = [r EXCEPT !.looked = TRUE]]
                /\ ipc' = [ipc EXCEPT ![t] = "gc_ret"]
                /\ UNCHANGED priv
           ELSE /\ io' = [io EXCEPT ![t] = [r EXCEPT !.looked = TRUE,
                                                     !.priv = k]]
                /\ ipc' = [ipc EXCEPT ![t] = "gc_read"]
                /\ priv' = [priv EXCEPT ![k].ref = @ + 1]
    /\ UNCHANGED <<helperVars, variant, devcfg, privOf, npriv, cgrpRef>>

\* "int val = def; if (!dev->cgroup.priv_key) return val;
\*  ref = cgroup_priv_get_current(dev->cgroup.priv_key);" called by a
\* process of cgroup c; io.ret is val.
GetCurrentCall(t, name, c) ==
    /\ ipc[t] = "idle"
    /\ nops < MaxIoctls
    /\ name \in AccessorNames(variant)
    /\ cgrpLive[c]
    /\ nops' = nops + 1
    /\ LET r == [IdleIo EXCEPT !.param = name, !.cgrp = c,
                               !.ret = AccessorDefault(name)]
           k == cgroup_priv_get_current(c)
       IN  IF devcfg.priv_key = 0
           THEN /\ io' = [io EXCEPT ![t] = r]
                /\ ipc' = [ipc EXCEPT ![t] = "gc_ret"]
                /\ UNCHANGED priv
           ELSE IF k = 0
           THEN /\ io' = [io EXCEPT ![t] = [r EXCEPT !.looked = TRUE]]
                /\ ipc' = [ipc EXCEPT ![t] = "gc_ret"]
                /\ UNCHANGED priv
           ELSE /\ io' = [io EXCEPT ![t] = [r EXCEPT !.looked = TRUE,
                                                     !.priv = k]]
                /\ ipc' = [ipc EXCEPT ![t] = "gc_read"]
                /\ priv' = [priv EXCEPT ![k].ref = @ + 1]
    /\ UNCHANGED <<helperVars, variant, devcfg, privOf, npriv, cgrpRef>>

\* "val = cgrp_ref_to_drm(ref)->field;"
GetCurrentRead(t) ==
    /\ ipc[t] = "gc_read"
    /\ io' = [io EXCEPT ![t].ret = AccessorField(priv[io[t].priv], io[t].param)]
    /\ ipc' = [ipc EXCEPT ![t] = "gc_put"]
    /\ UNCHANGED <<helperVars, variant, devcfg, privOf, priv, npriv, cgrpRef,
                   nops>>

\* "kref_put(ref, drm_cgroup_free);"
GetCurrentPut(t) ==
    /\ ipc[t] = "gc_put"
    /\ LET k == io[t].priv
       IN  priv' = [priv EXCEPT ![k].ref = @ - 1,
                                ![k].state = IF priv[k].ref = 1 THEN "freed"
                                             ELSE @]
    /\ ipc' = [ipc EXCEPT ![t] = "gc_ret"]
    /\ UNCHANGED <<helperVars, variant, devcfg, privOf, npriv, cgrpRef, io,
                   nops>>

\* "return val;"
GetCurrentReturn(t) ==
    /\ ipc[t] = "gc_ret"
    /\ ipc' = [ipc EXCEPT ![t] = "idle"]
    /\ io' = [io EXCEPT ![t] = IdleIo]
    /\ UNCHANGED <<helperVars, variant, devcfg, privOf, priv, npriv, cgrpRef,
                   nops>>

IoctlNext ==
    \/ \E t \in Threads, flags \in {0, 1}, fd \in Cgroups \cup {BadFd} :
          IoctlEntry(t, flags, fd)
    \/ \E t \in Threads, capable \in BOOLEAN, master \in BOOLEAN :
          IoctlAuth(t, capable, master)
    \/ \E t \in Threads : get_or_create_cgroup_data(t)
    \/ \E t \in Threads,
          q \in IoctlRequests :
          IoctlSwitch(t, q[1], q[2])
    \/ \E t \in Threads : IoctlPut(t)
    \/ \E t \in Threads : IoctlOut(t)
    \/ \E t \in Threads : IoctlReturn(t)
    \/ \E t \in Threads, name \in {"prio_offset", "dispboost"}, c \in Cgroups :
          GetCurrentCall(t, name, c)
    \/ \E t \in Threads : GetCurrentRead(t)
    \/ \E t \in Threads : GetCurrentPut(t)
    \/ \E t \in Threads : GetCurrentReturn(t)

IoctlSpec == IoctlInit /\ [][IoctlNext]_vars

\* ------------------------------------------------------------------
\* The ioctls and accessors together with removal from the cgroup store:
\* the life of the reference-counted records
\* ------------------------------------------------------------------
\* The cgroup goes away (or drm_cgroup_shutdown destroys the key): the store
\* drops its entry for the cgroup and puts the reference it held, with the
\* release function the key was created with.
cgroup_priv_release(c) ==
    /\ cgrpLive[c]
    /\ cgrpLive' = [cgrpLive EXCEPT ![c] = FALSE]
    /\ LET k == privOf[c]
       IN  IF k = 0
           THEN UNCHANGED <<privOf, priv>>
           ELSE /\ privOf' = [privOf EXCEPT ![c] = 0]
                /\ priv' = [priv EXCEPT ![k].ref = @ - 1,
                                         ![k].state = IF priv[k].ref = 1
                                                      THEN "freed" ELSE @]
    /\ UNCHANGED <<cgroup_helper, remove_params, registered, hash_mutex,
                   param_hash, rec, nalloc, shutdown, pc, op, removeCalls,
                   kfreeCalls, uaf, everSet, variant, devcfg, npriv, cgrpRef,
                   ipc, io, nops>>

\* The callers of this part are authorised, every request carries the
\* largest priority offset the variant accepts, and the accessor is the one
\* both variants have.
RefRequest(var) ==
    <<DRM_CGROUP_PARAM_PRIORITY_OFFSET,
      S64(IF var = "drm" THEN PrioOffsetLimit
          ELSE I915_PRIORITY_MAX - I915_CONTEXT_MAX_USER_PRIORITY)>>

RefInit ==
    /\ IoctlInit
    /\ devcfg.has_prio_offset
    /\ devcfg.has_dispboost

RefNext ==
    \/ \E t \in Threads, fd \in Cgroups : IoctlEntry(t, 0, fd)
    \/ \E t \in Threads : IoctlAuth(t, TRUE, FALSE)
    \/ \E t \in Threads : get_or_create_cgroup_data(t)
    \/ \E t \in Threads : IoctlSwitch(t, RefRequest(variant)[1], RefRequest(variant)[2])
    \/ \E t \in Threads : IoctlPut(t)
    \/ \E t \in Threads : IoctlOut(t)
    \/ \E t \in Threads : IoctlReturn(t)
    \/ \E t \in Threads, c \in Cgroups : GetCurrentCall(t, "prio_offset", c)
    \/ \E t \in Threads : GetCurrentRead(t)
    \/ \E t \in Threads : GetCurrentPut(t)
    \/ \E t \in Threads : GetCurrentReturn(t)
    \/ \E c \in Cgroups : cgroup_priv_release(c)

RefSpec == RefInit /\ [][RefNext]_vars

\* ------------------------------------------------------------------
\* The range checks of the two ioctls over the whole 64-bit range of
\* req->value: one caller issues requests one after the other
\* ------------------------------------------------------------------
Caller == 1

\* Values of req->value beyond the int range, and values next to the limits
\* of the i915 check that IoctlVals leaves out.
RangeVals(var) ==
    IF var = "drm"
    THEN {S64_2POW32, s64_sub(S64(0), S64_2POW32), S64_MAX, S64_MIN}
    ELSE {S64(I915_PRIORITY_MIN - I915_CONTEXT_MIN_USER_PRIORITY),
          S64(I915_PRIORITY_MIN - I915_CONTEXT_MIN_USER_PRIORITY - 1),
          S64_MAX, S64_MIN,
          s64_sub(S64_MAX, S64(I915_CONTEXT_MAX_USER_PRIORITY - 1))}

\* Display boost values below the maximum: a negative one, one whose low 32
\* bits are the first value above the maximum, and the most negative one.
RangeDispboostVals ==
    {S64(0 - 1), s64_sub(S64(PrioOffsetLimit + 2), S64_2POW32), S64_MIN}

RangeRequests(var) ==
    IoctlParamValues(var)
    \cup {<<DRM_CGROUP_PARAM_PRIORITY_OFFSET, v>> : v \in RangeVals(var)}
    \cup {<<DRM_CGROUP_PARAM_DISPBOOST_PRIORITY, v>> : v \in RangeDispboostVals}

RangeSwitch(t, param, value) ==
    /\ <<param, value>> \in RangeRequests(variant)
    /\ IoctlSwitchStep(t, param, value)

RangeNext ==
    \/ \E flags \in {0, 1}, fd \in Cgroups \cup {BadFd} :
          IoctlEntry(Caller, flags, fd)
    \/ \E capable \in BOOLEAN, master \in BOOLEAN :
          IoctlAuth(Caller, capable, master)
    \/ get_or_create_cgroup_data(Caller)
    \/ \E q \in RangeRequests("drm") \cup RangeRequests("i915") :
          RangeSwitch(Caller, q[1], q[2])
    \/ IoctlPut(Caller)
    \/ IoctlOut(Caller)
    \/ IoctlReturn(Caller)

RangeSpec == IoctlInit /\ [][RangeNext]_vars

\* ------------------------------------------------------------------
\* Before initialisation: no private-data key has been obtained
\* (dev->cgroup.priv_key is 0) and no helper is attached to the device
\* (dev->cgroup_helper is NULL); the accessors may be called already
\* ------------------------------------------------------------------
EarlyInit ==
    /\ cgroup_helper = FALSE
    /\ remove_params = FALSE
    /\ registered = FALSE
    /\ hash_mutex = 0
    /\ param_hash = [b \in Buckets |-> <<>>]
    /\ rec = [r \in RecIds |-> [state |-> "unalloc", cgroup |-> 0, priority |-> 0]]
    /\ nalloc = 0
    /\ cgrpLive = [c \in Cgroups |-> TRUE]
    /\ shutdown = "no"
    /\ pc = [t \in Threads |-> "idle"]
    /\ op = [t \in Threads |-> IdleOp]
    /\ removeCalls = [r \in RecIds |-> 0]
    /\ kfreeCalls = [r \in RecIds |-> 0]
    /\ uaf = FALSE
    /\ everSet = [c \in Cgroups |-> FALSE]
    /\ nops = 0
    /\ variant \in {"drm", "i915"}
    /\ devcfg \in [has_prio_offset : BOOLEAN, has_dispboost : BOOLEAN,
                   min_prio_offset : {0 - PrioOffsetLimit},
                   max_prio_offset : {PrioOffsetLimit},
                   max_dispboost : {PrioOffsetLimit + 1},
                   default_dispboost : {1}, priv_key : {0}]
    /\ privOf = [c \in Cgroups |-> 0]
    /\ priv = [k \in PrivIds |-> [state |-> "unalloc", ref |-> 0,
                                  priority_offset |-> 0, display_boost |-> 0]]
    /\ npriv = 0
    /\ cgrpRef = [c \in Cgroups |-> 0]
    /\ ipc = [t \in Threads |-> "idle"]
    /\ io = [t \in Threads |-> IdleIo]

EarlyNext ==
    \/ \E t \in Threads, name \in {"prio_offset", "dispboost"}, c \in Cgroups :
          GetCurrentCall(t, name, c)
    \/ \E t \in Threads : GetCurrentReturn(t)
    \/ \E t \in Threads, c \in Cgroups, p \in Params : GetParamCall(t, c, p)

EarlySpec == EarlyInit /\ [][EarlyNext]_vars

\* ------------------------------------------------------------------
\* Initialisation of the private-data key: drm_cgroup_init (drm_cgroup.c)
\* and i915_cgroup_init (i915_cgroup.c), and the accessors after it
\* ------------------------------------------------------------------
\* What cgroup_priv_createkey / cgroup_priv_getkey may return: a key, or a
\* negative error code when no key could be had.
KeyResults == {1, 0 - ENOMEM}

\* "priv_key = cgroup_priv_createkey(free); if (priv_key < 0) ret = priv_key;
\*  mutex_init(&lock); return ret;": the result is stored in priv_key
\* whatever it is.
drm_cgroup_init(t, key) ==
    /\ ipc[t] = "idle"
    /\ \A u \in Threads : ipc[u] = "idle"
    /\ devcfg.priv_key = 0
    /\ devcfg' = [devcfg EXCEPT !.priv_key = key]
    /\ io' = [io EXCEPT ![t] = [IdleIo EXCEPT !.param = "init",
                                              !.ret = IF key < 0 THEN key
                                                      ELSE 0]]
    /\ ipc' = [ipc EXCEPT ![t] = "init_ret"]
    /\ UNCHANGED <<helperVars, variant, privOf, priv, npriv, cgrpRef, nops>>

\* The return of the initialisation or of the shutdown.
InitReturn(t) ==
    /\ ipc[t] = "init_ret"
    /\ ipc' = [ipc EXCEPT ![t] = "idle"]
    /\ io' = [io EXCEPT ![t] = IdleIo]
    /\ UNCHANGED <<helperVars, variant, devcfg, privOf, priv, npriv, cgrpRef,
                   nops>>

\* drm_cgroup_shutdown / i915_cgroup_shutdown, called by the driver after
\* its initialisation whether that succeeded or not:
\* "cgroup_priv_destroykey(priv_key);" with no test of the key.  No cgroup
\* has private data here, so the store has nothing to release; io.looked
\* records that the store was called with the key.
drm_cgroup_shutdown(t) ==
    /\ ipc[t] = "idle"
    /\ \A u \in Threads : ipc[u] = "idle"
    /\ devcfg.priv_key # 0
    /\ nops < MaxIoctls
    /\ nops' = nops + 1
    /\ io' = [io EXCEPT ![t] = [IdleIo EXCEPT !.param = "shutdown",
                                              !.looked = TRUE]]
    /\ ipc' = [ipc EXCEPT ![t] = "init_ret"]
    /\ UNCHANGED <<helperVars, variant, devcfg, privOf, priv, npriv, cgrpRef>>

KeyNext ==
    \/ \E t \in Threads, key \in KeyResults : drm_cgroup_init(t, key)
    \/ \E t \in Threads : drm_cgroup_shutdown(t)
    \/ \E t \in Threads : InitReturn(t)
    \/ \E t \in Threads, name \in {"prio_offset", "dispboost"}, c \in Cgroups :
          GetCurrentCall(t, name, c)
    \/ \E t \in Threads : GetCurrentReturn(t)

KeySpec == EarlyInit /\ [][KeyNext]_vars

\* ------------------------------------------------------------------
\* The i915 callbacks on their own: update_param followed by read_param on
\* one record (i915_cgroups.c)
\* ------------------------------------------------------------------
\* The values of a round trip: the ends of the legal range, their
\* neighbours on both sides, and the values around zero.
RoundTripInts ==
    {I915_CONTEXT_MIN_USER_PRIORITY - 1, I915_CONTEXT_MIN_USER_PRIORITY,
     I915_CONTEXT_MIN_USER_PRIORITY + 1, 0 - 1, 0, 1,
     I915_CONTEXT_MAX_USER_PRIORITY - 1, I915_CONTEXT_MAX_USER_PRIORITY,
     I915_CONTEXT_MAX_USER_PRIORITY + 1}

\* The int64 values passed to update_param: the ints above, and values
\* outside the int range whose low 32 bits are a legal priority (0, the
\* maximum, the minimum) or all ones.
RoundTripVals ==
    {S64(v) : v \in RoundTripInts}
    \cup {S64_2POW32, s64_sub(S64(0), S64_2POW32),
          s64_add(S64_2POW32, S64(I915_CONTEXT_MAX_USER_PRIORITY)),
          s64_sub(S64(I915_CONTEXT_MIN_USER_PRIORITY), S64_2POW32),
          S64_MAX, S64_MIN}

\* Record 1 is a record of the driver holding any legal priority; thread 1 is
\* about to call update_param(record, param, val) with any id and value.
CallbackInit ==
    /\ cgroup_helper = TRUE
    /\ remove_params = FALSE
    /\ registered = TRUE
    /\ hash_mutex = 0
    /\ param_hash = [b \in Buckets |-> IF b = BucketOf(1) THEN <<1>> ELSE <<>>]
    /\ \E prio \in {v \in RoundTripInts :
                       /\ v <= I915_CONTEXT_MAX_USER_PRIORITY
                       /\ v >= I915_CONTEXT_MIN_USER_PRIORITY} :
          rec = [r \in RecIds |->
                   IF r = 1
                   THEN [state |-> "live", cgroup |-> 1, priority |-> prio]
                   ELSE [state |-> "unalloc", cgroup |-> 0, priority |-> 0]]
    /\ nalloc = 1
    /\ cgrpLive = [c \in Cgroups |-> TRUE]
    /\ shutdown = "no"
    /\ pc = [t \in Threads |-> "idle"]
    /\ \E p \in Params, v \in RoundTripVals :
          op = [t \in Threads |->
                  IF t = 1
                  THEN [IdleOp EXCEPT !.kind = "callbacks", !.cgrp = 1,
                                      !.param = p, !.val = v, !.data = 1]
                  ELSE IdleOp]
    /\ removeCalls = [r \in RecIds |-> 0]
    /\ kfreeCalls = [r \in RecIds |-> 0]
    /\ uaf = FALSE
    /\ everSet = [c \in Cgroups |-> FALSE]
    /\ nops = 0
    /\ IoctlIdle

\* update_param(record, param, val): op.ret is its return value.
CallbackUpdate(t) ==
    /\ pc[t] = "idle"
    /\ op[t].kind = "callbacks"
    /\ LET r == op[t].data
           u == i915_cgrp_update_param(rec[r].priority, op[t].param, op[t].val)
       IN  /\ rec' = [rec EXCEPT ![r].priority = u.priority]
           /\ op' = [op EXCEPT ![t].ret = u.ret]
    /\ pc' = [pc EXCEPT ![t] = "cb_updated"]
    /\ UNCHANGED <<ioctlVars, everSet, nops>>
    /\ UNCHANGED <<cgroup_helper, remove_params, registered, hash_mutex,
                   param_hash, nalloc, cgrpLive, shutdown, removeCalls,
                   kfreeCalls, uaf>>

\* read_param(record, param, &out) with the same id: op.ret is now its
\* return value and op.out what it wrote.
CallbackRead(t) ==
    /\ pc[t] = "cb_updated"
    /\ LET rd == i915_cgrp_read_param(rec[op[t].data].priority, op[t].param)
       IN  op' = [op EXCEPT ![t].ret = rd.ret, ![t].out = rd.out]
    /\ pc' = [pc EXCEPT ![t] = "cb_read"]
    /\ UNCHANGED <<ioctlVars, everSet, nops>>
    /\ UNCHANGED <<cgroup_helper, remove_params, registered, hash_mutex,
                   param_hash, rec, nalloc, cgrpLive, shutdown, removeCalls,
                   kfreeCalls, uaf>>

CallbackNext ==
    \/ \E t \in Threads : CallbackUpdate(t)
    \/ \E t \in Threads : CallbackRead(t)

CallbackSpec == CallbackInit /\ [][CallbackNext]_vars

\* ------------------------------------------------------------------- Next
\* ------------------------------------------------------------------
\* A second i915 device: i915_cgroup_init(dev2) passes the same static
\* i915_cgrp_helper to drm_cgrp_helper_init, so both devices use the one
\* table, mutex and notifier block of this model
\* ------------------------------------------------------------------
\* drm_cgrp_helper_init(&dev2->drm, &i915_cgrp_helper) while the first
\* device is in use: hash_init empties every bucket without freeing what
\* was linked.  It is taken here at the quietest moment, when no call is
\* inside the helper and the mutex is free, so that mutex_init and the
\* second registration of the notifier block leave them as they were.
SecondDeviceInit ==
    /\ cgroup_helper
    /\ shutdown = "no"
    /\ \A t \in Threads : pc[t] = "idle"
    /\ hash_mutex = 0
    /\ nops < MaxOps
    /\ nops' = nops + 1
    /\ param_hash' = [b \in Buckets |-> <<>>]
    /\ UNCHANGED <<ioctlVars, everSet>>
    /\ UNCHANGED <<cgroup_helper, remove_params, registered, hash_mutex, rec,
                   nalloc, cgrpLive, shutdown, pc, op, removeCalls,
                   kfreeCalls, uaf>>

\* Sets, gets and shutdown through either device (the helper functions
\* reach the table through dev->cgroup_helper, which is the same helper for
\* both, and never compare data->dev), and the second initialisation.
TwoDeviceNext ==
    \/ \E t \in Threads, c \in Cgroups, q \in Requests :
          SetParamCall(t, c, q[1], q[2])
    \/ \E t \in Threads : SetSearch(t)
    \/ \E t \in Threads : SetAlloc(t)
    \/ \E t \in Threads : SetUpdate(t)
    \/ \E t \in Threads : SetUnlock(t)
    \/ \E t \in Threads, c \in Cgroups, p \in Params : GetParamCall(t, c, p)
    \/ \E t \in Threads : GetSearch(t)
    \/ \E t \in Threads : GetUnlock(t)
    \/ \E t \in Threads : ShutdownCall(t)
    \/ \E t \in Threads : ShutdownDrain(t)
    \/ \E t \in Threads : ShutdownUnlock(t)
    \/ \E t \in Threads : ShutdownUnregister(t)
    \/ SecondDeviceInit

TwoDeviceSpec == Init /\ [][TwoDeviceNext]_vars

\* ------------------------------------------------------------------
\* Teardown while calls are in flight: the device is unbound while a
\* set-parameter ioctl is still inside drm_cgrp_helper_set_param
\* ------------------------------------------------------------------
\* drm_cgrp_helper_shutdown is entered whatever the other threads are
\* doing: the function tests nothing before mutex_lock, and set_param
\* tests only dev->cgroup_helper, which shutdown leaves set.
ShutdownCallInFlight(t) ==
    /\ pc[t] = "idle"
    /\ cgroup_helper
    /\ shutdown = "no"
    /\ shutdown' = "running"
    /\ op' = [op EXCEPT ![t] = [IdleOp EXCEPT !.kind = "shutdown"]]
    /\ pc' = [pc EXCEPT ![t] = "sd_lock"]
    /\ UNCHANGED <<ioctlVars, everSet>>
    /\ UNCHANGED <<cgroup_helper, remove_params, registered, hash_mutex,
                   param_hash, rec, nalloc, cgrpLive, removeCalls, kfreeCalls,
                   uaf, nops>>

\* Set calls that started before the shutdown, destruction notifications at
\* any time, and the shutdown.
TeardownNext ==
    \/ \E t \in Threads, c \in Cgroups, q \in Requests :
          SetParamCall(t, c, q[1], q[2])
    \/ \E t \in Threads : SetSearch(t)
    \/ \E t \in Threads : SetAlloc(t)
    \/ \E t \in Threads : SetUpdate(t)
    \/ \E t \in Threads : SetUnlock(t)
    \/ \E t \in Threads, c \in Cgroups : CgroupDestroy(t, c)
    \/ \E t \in Threads : DestroyedBody(t)
    \/ \E t \in Threads : DestroyedUnlock(t)
    \/ \E t \in Threads : ShutdownCallInFlight(t)
    \/ \E t \in Threads : ShutdownDrain(t)
    \/ \E t \in Threads : ShutdownUnlock(t)
    \/ \E t \in Threads : ShutdownUnregister(t)

TeardownSpec == Init /\ [][TeardownNext]_vars

\* ------------------------------------------------------------------
\* The helper library under fair scheduling
\* ------------------------------------------------------------------
\* The set requests that take both ways through update_param: a value it
\* stores and a value it rejects with -EINVAL.
LockRequests ==
    {<<I915_CGRP_DEF_CONTEXT_PRIORITY, S64(I915_CONTEXT_MAX_USER_PRIORITY)>>,
     <<I915_CGRP_DEF_CONTEXT_PRIORITY, S64(I915_CONTEXT_MAX_USER_PRIORITY + 1)>>}

\* The steps thread t takes inside a helper function once it has entered it.
\* The scheduler runs every runnable thread again, and mutex_lock hands the
\* mutex to a waiter once it is released.
ThreadStep(t) ==
    \/ SetSearch(t)
    \/ SetAlloc(t)
    \/ SetUpdate(t)
    \/ SetUnlock(t)
    \/ GetSearch(t)
    \/ GetUnlock(t)
    \/ DestroyedBody(t)
    \/ DestroyedUnlock(t)
    \/ ShutdownDrain(t)
    \/ ShutdownUnlock(t)
    \/ ShutdownUnregister(t)

FairNext ==
    \/ \E t \in Threads, c \in Cgroups, q \in LockRequests :
          SetParamCall(t, c, q[1], q[2])
    \/ \E t \in Threads, c \in Cgroups :
          GetParamCall(t, c, I915_CGRP_DEF_CONTEXT_PRIORITY)
    \/ \E t \in Threads, c \in Cgroups : CgroupDestroy(t, c)
    \/ \E t \in Threads : ShutdownCall(t)
    \/ \E t \in Threads : ThreadStep(t)

FairSpec ==
    /\ Init
    /\ [][FairNext]_vars
    /\ \A t \in Threads : WF_vars(ThreadStep(t))

\* ------------------------------------------------------------------
\* drm_cgroup.c when no store succeeds: records are created, and nothing
\* is written to them after their creation
\* ------------------------------------------------------------------
CreateInit == IoctlInit /\ variant = "drm"

\* The switch for a request it rejects: an unknown id, a parameter the
\* driver does not honour, or a value beyond the limits.
CreateSwitch(t, param, value) ==
    /\ ipc[t] = "io_switch"
    /\ drm_switch(priv[io[t].priv], param, value).ret # 0
    /\ IoctlSwitch(t, param, value)

CreateNext ==
    \/ \E t \in Threads, flags \in {0, 1}, fd \in Cgroups \cup {BadFd} :
          IoctlEntry(t, flags, fd)
    \/ \E t \in Threads, capable \in BOOLEAN, master \in BOOLEAN :
          IoctlAuth(t, capable, master)
    \/ \E t \in Threads : get_or_create_cgroup_data(t)
    \/ \E t \in Threads, q \in IoctlParamValues("drm") :
          CreateSwitch(t, q[1], q[2])
    \/ \E t \in Threads : IoctlPut(t)
    \/ \E t \in Threads : IoctlOut(t)
    \/ \E t \in Threads : IoctlReturn(t)
    \/ \E t \in Threads, name \in {"prio_offset", "dispboost"}, c \in Cgroups :
          GetCurrentCall(t, name, c)
    \/ \E t \in Threads : GetCurrentRead(t)
    \/ \E t \in Threads : GetCurrentPut(t)
    \/ \E t \in Threads : GetCurrentReturn(t)

CreateSpec == CreateInit /\ [][CreateNext]_vars

\* ------------------------------------------------------------------
\* Everything but the set paths, on populated stores: cgroup 1 has a record
\* of the helper library and private data of the ioctls, the other cgroups
\* have neither
\* ------------------------------------------------------------------
ReadInit ==
    /\ cgroup_helper = TRUE
    /\ remove_params = FALSE
    /\ registered = TRUE
    /\ hash_mutex = 0
    /\ param_hash = [b \in Buckets |-> IF b = BucketOf(1) THEN <<1>> ELSE <<>>]
    /\ rec = [r \in RecIds |->
                IF r = 1
                THEN [state |-> "live", cgroup |-> 1,
                      priority |-> I915_CONTEXT_MAX_USER_PRIORITY]
                ELSE [state |-> "unalloc", cgroup |-> 0, priority |-> 0]]
    /\ nalloc = 1
    /\ cgrpLive = [c \in Cgroups |-> TRUE]
    /\ shutdown = "no"
    /\ pc = [t \in Threads |-> "idle"]
    /\ op = [t \in Threads |-> IdleOp]
    /\ removeCalls = [r \in RecIds |-> 0]
    /\ kfreeCalls = [r \in RecIds |-> 0]
    /\ uaf = FALSE
    /\ everSet = [c \in Cgroups |-> c = 1]
    /\ nops = 0
    /\ variant \in {"drm", "i915"}
    /\ devcfg = [has_prio_offset |-> TRUE, has_dispboost |-> TRUE,
                 min_prio_offset |-> 0 - PrioOffsetLimit,
                 max_prio_offset |-> PrioOffsetLimit,
                 max_dispboost |-> PrioOffsetLimit + 1,
                 default_dispboost |-> 1, priv_key |-> 1]
    /\ privOf = [c \in Cgroups |-> IF c = 1 THEN 1 ELSE 0]
    /\ priv = [k \in PrivIds |->
                 IF k = 1
                 THEN [state |-> "live", ref |-> 1,
                       priority_offset |-> s64_to_int(RefRequest(variant)[2]),
                       display_boost |-> IF variant = "drm"
                                         THEN devcfg.max_dispboost ELSE 0]
                 ELSE [state |-> "unalloc", ref |-> 0,
                       priority_offset |-> 0, display_boost |-> 0]]
    /\ npriv = 1
    /\ cgrpRef = [c \in Cgroups |-> 0]
    /\ ipc = [t \in Threads |-> "idle"]
    /\ io = [t \in Threads |-> IdleIo]

ReadNext ==
    \/ \E t \in Threads, c \in Cgroups, p \in Params : GetParamCall(t, c, p)
    \/ \E t \in Threads : GetSearch(t)
    \/ \E t \in Threads : GetUnlock(t)
    \/ \E t \in Threads, name \in {"prio_offset", "dispboost"}, c \in Cgroups :
          GetCurrentCall(t, name, c)
    \/ \E t \in Threads : GetCurrentRead(t)
    \/ \E t \in Threads : GetCurrentPut(t)
    \/ \E t \in Threads : GetCurrentReturn(t)
    \/ \E t \in Threads, c \in Cgroups : CgroupDestroy(t, c)
    \/ \E t \in Threads : DestroyedBody(t)
    \/ \E t \in Threads : DestroyedUnlock(t)
    \/ \E t \in Threads : ShutdownCall(t)
    \/ \E t \in Threads : ShutdownDrain(t)
    \/ \E t \in Threads : ShutdownUnlock(t)
    \/ \E t \in Threads : ShutdownUnregister(t)

ReadSpec == ReadInit /\ [][ReadNext]_vars

Next ==
    \/ \E t \in Threads, c \in Cgroups, q \in Requests :
          SetParamCall(t, c, q[1], q[2])
    \/ \E t \in Threads : SetSearch(t)
    \/ \E t \in Threads : SetAlloc(t)
    \/ \E t \in Threads : SetUpdate(t)
    \/ \E t \in Threads : SetUnlock(t)
    \/ \E t \in Threads, c \in Cgroups, p \in Params : GetParamCall(t, c, p)
    \/ \E t \in Threads : GetSearch(t)
    \/ \E t \in Threads : GetUnlock(t)
    \/ \E t \in Threads, c \in Cgroups : CgroupDestroy(t, c)
    \/ \E c \in Cgroups : CgroupCreate(c)
    \/ \E t \in Threads : DestroyedBody(t)
    \/ \E t \in Threads : DestroyedUnlock(t)
    \/ \E t \in Threads : ShutdownCall(t)
    \/ \E t \in Threads : ShutdownDrain(t)
    \/ \E t \in Threads : ShutdownUnlock(t)
    \/ \E t \in Threads : ShutdownUnregister(t)

Spec == Init /\ [][Next]_vars

\* ------------------------------------------------------------------
\* Properties of the helper library (specification Spec)
\* ------------------------------------------------------------------

LiveRecordsOf(c) ==
    {r \in InTable : rec[r].state = "live" /\ rec[r].cgroup = c}

Cleanups(r) == removeCalls[r] + kfreeCalls[r]

OutOfRange(v) ==
    \/ ~FitsInt(v)
    \/ s64_to_int(v) > I915_CONTEXT_MAX_USER_PRIORITY
    \/ s64_to_int(v) < I915_CONTEXT_MIN_USER_PRIORITY

\* C1: the table holds at most one record per cgroup, and a set_param that
\* found or created a record for its cgroup works on the one record of that
\* cgroup (a set for a cgroup that has a record did not allocate another).
C1_OneRecordPerCgroup ==
    /\ \A c \in Cgroups : Cardinality(LiveRecordsOf(c)) <= 1
    /\ \A t \in Threads :
          (pc[t] \in {"set_update", "set_unlock"} /\ op[t].data # 0
           /\ rec[op[t].data].state = "live")
          => LiveRecordsOf(op[t].cgrp) = {op[t].data}

\* C1 witness: a second set_param on a cgroup found the record the first one
\* created; one record has been allocated in all.
C1_Witness ==
    \E t \in Threads :
        /\ pc[t] = "set_update"
        /\ ~op[t].created
        /\ rec[op[t].data].state = "live"
        /\ nalloc = 1

\* C2: whatever the interleaving of set_param calls, alloc_params succeeds
\* for a cgroup only in a state where the table has no record of that
\* cgroup, and a call that has decided to allocate excludes every other call
\* from the search-allocate-insert sequence; so concurrent first-time calls
\* allocate once and the later call works on the record of the earlier one.
C2_ConcurrentFirstSetAllocatesOnce ==
    /\ [][\A t \in Threads :
            (pc[t] = "set_alloc" /\ pc'[t] = "set_update")
            => /\ LiveRecordsOf(op[t].cgrp) = {}
               /\ LiveRecordsOf(op[t].cgrp)' = {op'[t].data}]_vars
    /\ [](\A t, u \in Threads :
            (t # u /\ pc[t] \in {"set_alloc", "set_update", "set_unlock"})
            => pc[u] \notin {"set_alloc", "set_update", "set_unlock"})

\* C2 witness: two first-time set_param calls for the same cgroup are in
\* progress; one has inserted the record, the other waits for the mutex.
C2_Witness ==
    \E t, u \in Threads :
        /\ t # u
        /\ pc[t] = "set_unlock" /\ op[t].created
        /\ pc[u] = "set_lock" /\ op[u].cgrp = op[t].cgrp
        /\ nalloc = 1

\* C3: every record that was created is cleaned up (remove_params or kfree)
\* exactly once: never twice, and not zero times once shutdown has returned.
C3_CleanupExactlyOnce ==
    \A r \in RecIds :
        /\ Cleanups(r) <= 1
        /\ (shutdown = "returned" /\ rec[r].state # "unalloc")
           => Cleanups(r) >= 1

\* C4: once cgrp_destroyed has handled the destruction of a cgroup (it has
\* found and cleaned up the record and is about to return), that record is
\* no longer in the hash table, so no later lookup can find it.
C4_DestroyedRecordUnlinked ==
    \A t \in Threads :
        (pc[t] = "cd_unlock" /\ op[t].data # 0) => op[t].data \notin InTable

\* C5: no operation traverses, compares or passes to a callback a record that
\* has been freed.
C5_NoUseAfterFree == ~uaf

C8_FailedSetLeavesNoRecord ==
    \A t \in Threads :
        (pc[t] = "set_unlock" /\ op[t].ret # 0) => ~op[t].created

\* C8 (amended): a set_param that returns an error stores no value (the
\* failing update_param changes no record and not the table), and only a
\* failed allocation leaves the table as it was: when update_param rejects a
\* first-time request, the record allocated for it stays in the table for the
\* cgroup, zero-initialised.
C8_FailedSetStoresNoValue ==
    /\ [][\A t \in Threads :
            (pc[t] = "set_update" /\ pc'[t] = "set_unlock" /\ op'[t].ret # 0)
            => (rec' = rec /\ param_hash' = param_hash)]_vars
    /\ [](\A t \in Threads :
            (pc[t] = "set_unlock" /\ op[t].ret # 0)
            => /\ op[t].ret = 0 - ENOMEM => (~op[t].created /\ op[t].data = 0)
               /\ op[t].created
                  => /\ op[t].ret = 0 - EINVAL
                     /\ op[t].data \in InTable
                     /\ rec[op[t].data] = [state |-> "live",
                                           cgroup |-> op[t].cgrp,
                                           priority |-> 0])

\* C8 witness: a first-time set_param with an illegal request has failed and
\* its new record is in the table.
C8_Witness ==
    \E t \in Threads :
        /\ pc[t] = "set_unlock"
        /\ op[t].ret = 0 - EINVAL
        /\ op[t].created
        /\ op[t].data \in InTable

\* C9: a set request with an out-of-range value for the known parameter
\* fails with -EINVAL and leaves the value stored in the record untouched,
\* and a get that succeeds returns the value stored in the cgroup's record;
\* so after a set of a legal v, a rejected set leaves get returning v.
C9_RejectedSetKeepsValue ==
    /\ [][\A t \in Threads :
            (pc[t] = "set_update" /\ pc'[t] = "set_unlock"
             /\ op[t].param = I915_CGRP_DEF_CONTEXT_PRIORITY
             /\ OutOfRange(op[t].val))
            => /\ op'[t].ret = 0 - EINVAL
               /\ rec'[op[t].data].priority = rec[op[t].data].priority]_vars
    /\ [](\A t \in Threads :
            (pc[t] = "get_unlock" /\ op[t].ret = 0
             /\ rec[op[t].data].state = "live")
            => /\ op[t].out = S64(rec[op[t].data].priority)
               /\ rec[op[t].data].cgroup = op[t].cgrp)

\* C9 witness: the record holds the maximum legal value and a set of the
\* maximum plus one on it has just been rejected.
C9_Witness ==
    \E t \in Threads :
        /\ pc[t] = "set_unlock"
        /\ op[t].val = S64(I915_CONTEXT_MAX_USER_PRIORITY + 1)
        /\ op[t].ret = 0 - EINVAL
        /\ ~op[t].created
        /\ rec[op[t].data].state = "live"
        /\ rec[op[t].data].priority = I915_CONTEXT_MAX_USER_PRIORITY

\* C12: drm_cgrp_helper_get_param returns zero only if a value has been set
\* for the cgroup; when no set on the cgroup has succeeded (failed attempts
\* included) it returns -EINVAL and leaves the caller's value unwritten.
C12_GetSucceedsOnlyAfterSet ==
    \A t \in Threads :
        (pc[t] = "get_unlock" /\ ~everSet[op[t].cgrp])
        => (op[t].ret = 0 - EINVAL /\ op[t].out = NoVal)

\* C14: when the table holds no record of the calling process's cgroup,
\* i915_cgroup_get_prio (a get of I915_CGRP_DEF_CONTEXT_PRIORITY mapped by
\* i915_cgroup_get_prio) returns I915_PRIORITY_NORMAL.
C14_NoRecordGivesDefault ==
    \A t \in Threads :
        (pc[t] = "get_unlock"
         /\ op[t].param = I915_CGRP_DEF_CONTEXT_PRIORITY
         /\ LiveRecordsOf(op[t].cgrp) = {})
        => i915_cgroup_get_prio(op[t].ret, op[t].out) = I915_PRIORITY_NORMAL

\* C16: after a set on cgroup G, the destruction of G and the creation of a
\* cgroup that reuses G's address and id, a get for the new cgroup does not
\* return the value set on G: a get that succeeds took its value from a
\* record that has not been freed.
C16_ReusedCgroupSeesNoOldValue ==
    \A t \in Threads :
        (pc[t] = "get_unlock" /\ op[t].ret = 0)
        => rec[op[t].data].state = "live"

\* C17: a destruction notification for a cgroup that has no record in the
\* table is a no-op: cgrp_destroyed calls no cleanup and leaves the table and
\* every record as they were.
C17_DestroyWithoutRecordIsNoOp ==
    [][\A t \in Threads :
         (pc[t] = "cd_lock" /\ pc'[t] = "cd_unlock"
          /\ LiveRecordsOf(op[t].cgrp) = {})
         => /\ removeCalls' = removeCalls
            /\ kfreeCalls' = kfreeCalls
            /\ rec' = rec
            /\ param_hash' = param_hash]_vars

\* C18: when alloc_params fails in a first-time set, the call returns
\* -ENOMEM without calling update_param, no step of the call changes a
\* record or the table, nothing was inserted, and the mutex is released when
\* the call returns.
C18_FailedAllocLeavesRegistry ==
    /\ [][\A t \in Threads :
            /\ (pc[t] = "set_lock" /\ pc'[t] # pc[t])
               => (rec' = rec /\ param_hash' = param_hash)
            /\ (pc[t] = "set_alloc" /\ pc'[t] = "set_unlock")
               => /\ op'[t].ret = 0 - ENOMEM
                  /\ rec' = rec /\ param_hash' = param_hash
                  /\ nalloc' = nalloc
            /\ (pc[t] = "set_unlock" /\ pc'[t] = "idle")
               => (rec' = rec /\ param_hash' = param_hash
                   /\ hash_mutex' = 0)]_vars
    /\ [](\A t \in Threads :
            (pc[t] = "set_unlock" /\ op[t].ret = 0 - ENOMEM)
            => /\ ~op[t].created
               /\ op[t].data = 0
               /\ LiveRecordsOf(op[t].cgrp) = {})

\* C18 witness: a first-time set has failed with -ENOMEM while the table
\* holds the record of another cgroup.
C18_Witness ==
    \E t \in Threads :
        /\ pc[t] = "set_unlock"
        /\ op[t].ret = 0 - ENOMEM
        /\ \E r \in InTable : rec[r].state = "live"

\* ------------------------------------------------------------------
\* Properties of the set-parameter ioctls (specification IoctlSpec)
\* ------------------------------------------------------------------

\* C10: a set-parameter ioctl whose caller neither holds CAP_SYS_RESOURCE
\* nor is the current DRM master returns a non-zero error status.
C10_UnauthorizedSetFails ==
    \A t \in Threads :
        (ipc[t] = "io_ret" /\ io[t].access = "denied")
        => io[t].ret # 0

\* C11: a set-parameter ioctl of a caller that neither holds CAP_SYS_RESOURCE
\* nor is the DRM master changes no record: from its entry to its return no
\* step of the call creates or installs a record, changes a stored
\* priority_offset or display_boost, or alters a record's reference count.
C11_UnauthorizedSetChangesNothing ==
    [][\A t \in Threads :
         (ipc'[t] # ipc[t]
          /\ ((ipc[t] = "idle" /\ ipc'[t] \in {"io_ret", "io_auth"})
              \/ io[t].access = "denied"
              \/ io'[t].access = "denied"))
         => (priv' = priv /\ privOf' = privOf /\ npriv' = npriv)]_vars

\* C11 witness: an unauthorized call has run to its return on a cgroup whose
\* record holds a value set earlier.
C11_Witness ==
    \E t \in Threads :
        /\ ipc[t] = "io_ret"
        /\ io[t].access = "denied"
        /\ privOf[io[t].cgrp] # 0
        /\ priv[privOf[io[t].cgrp]].priority_offset # 0

\* ------------------------------------------------------------------
\* Properties of the i915 callbacks (specification CallbackSpec)
\* ------------------------------------------------------------------

\* C13: round trip: when update_param(record, id, v) succeeded, read_param
\* (record, id) with no update in between returns 0 and writes exactly v; and
\* update_param succeeds for the known id and every v of the legal range,
\* both ends included.
C13_UpdateReadRoundTrip ==
    /\ [][\A t \in Threads :
            (pc[t] = "cb_updated" /\ pc'[t] = "cb_read" /\ op[t].ret = 0)
            => (op'[t].ret = 0 /\ op'[t].out = op[t].val)]_vars
    /\ [](\A t \in Threads :
            (pc[t] = "cb_updated"
             /\ op[t].param = I915_CGRP_DEF_CONTEXT_PRIORITY
             /\ ~OutOfRange(op[t].val))
            => op[t].ret = 0)

\* C13 witness: a round trip of the minimum legal value on a record that
\* held the maximum.
C13_Witness ==
    \E t \in Threads :
        /\ pc[t] = "cb_read"
        /\ op[t].val = S64(I915_CONTEXT_MIN_USER_PRIORITY)
        /\ op[t].ret = 0
        /\ op[t].out = S64(I915_CONTEXT_MIN_USER_PRIORITY)

\* The threads inside a set-parameter ioctl that hold the reference
\* cgroup_get_from_fd gave them on cgroup c.
HoldersOf(c) ==
    {t \in Threads : /\ ipc[t] \in {"io_auth", "io_goc", "io_switch", "io_put",
                                    "io_out"}
                     /\ io[t].cgrp = c}

\* C19: every set-parameter ioctl releases the cgroup reference it got from
\* cgroup_get_from_fd exactly once before it returns, on every exit path,
\* and a call that got none (bad flags, unresolvable descriptor) releases
\* none: the references outstanding on a cgroup are those of the calls still
\* between cgroup_get_from_fd and "out", and a return changes no count.
C19_CgroupReferenceBalanced ==
    /\ [](\A c \in Cgroups : cgrpRef[c] = Cardinality(HoldersOf(c)))
    /\ [][\A t \in Threads :
            /\ (ipc[t] = "idle" /\ ipc'[t] = "io_ret") => cgrpRef' = cgrpRef
            /\ (ipc[t] = "io_ret" /\ ipc'[t] = "idle") => cgrpRef' = cgrpRef
            /\ (ipc[t] = "io_out" /\ ipc'[t] = "io_ret")
               => cgrpRef'[io[t].cgrp] = cgrpRef[io[t].cgrp] - 1]_vars

\* C19 witness: a call that failed to allocate the record has returned
\* and no reference on its cgroup is outstanding.
C19_Witness ==
    \E t \in Threads :
        /\ ipc[t] = "io_ret"
        /\ io[t].cgrp # 0
        /\ io[t].ret = 0 - ENOMEM
        /\ cgrpRef[io[t].cgrp] = 0

\* C20: the checks of the set-parameter ioctl run in order and fail fast: a
\* request with non-zero flags returns -EINVAL before the descriptor is
\* resolved, before the access check and before any record is looked up or
\* created, whatever its descriptor is; a request whose descriptor does not
\* resolve returns that error before the access check.
C20_ChecksInOrder ==
    /\ [](\A t \in Threads :
            /\ io[t].flags # 0
               => /\ ipc[t] = "io_ret"
                  /\ io[t].ret = 0 - EINVAL
                  /\ io[t].cgrp = 0
                  /\ io[t].access = "unread"
                  /\ io[t].priv = 0
            /\ (ipc[t] = "io_ret" /\ io[t].flags = 0 /\ io[t].cgrp = 0)
               => /\ io[t].ret = 0 - EBADF
                  /\ io[t].access = "unread"
                  /\ io[t].priv = 0)
    /\ [][\A t \in Threads :
            (ipc[t] = "idle" /\ ipc'[t] = "io_ret")
            => /\ cgrpRef' = cgrpRef
               /\ priv' = priv /\ privOf' = privOf /\ npriv' = npriv]_vars

\* C20 witness: one call was turned away for its flags and another for its
\* descriptor.
C20_Witness ==
    \E t, u \in Threads :
        /\ ipc[t] = "io_ret" /\ io[t].flags # 0
        /\ ipc[u] = "io_ret" /\ io[u].flags = 0 /\ io[u].cgrp = 0
        /\ io[u].ret = 0 - EBADF

\* ------------------------------------------------------------------
\* Properties of the accessors before initialisation (specification
\* EarlySpec)
\* ------------------------------------------------------------------

\* C15: called before a private-data key is registered, a current-group
\* accessor returns its default without calling cgroup_priv_get_current and
\* without taking a reference; called with no helper attached,
\* drm_cgrp_helper_get_param returns -EINVAL at once, without taking
\* hash_mutex and without writing a value, so that i915_cgroup_get_prio
\* returns I915_PRIORITY_NORMAL.
C15_AccessorBeforeInit ==
    /\ \A t \in Threads :
          ipc[t] = "gc_ret"
          => /\ io[t].ret = AccessorDefault(io[t].param)
             /\ ~io[t].looked
             /\ io[t].priv = 0
    /\ \A t \in Threads :
          op[t].kind = "get"
          => /\ pc[t] = "idle"
             /\ op[t].ret = 0 - EINVAL
             /\ op[t].out = NoVal
             /\ i915_cgroup_get_prio(op[t].ret, op[t].out)
                = I915_PRIORITY_NORMAL
    /\ hash_mutex = 0
    /\ \A k \in PrivIds : priv[k].ref = 0
    /\ \A c \in Cgroups : cgrpRef[c] = 0

\* C15 witness: before initialisation one thread has the display boost
\* default from its accessor and another has called get_param.
C15_Witness ==
    \E t, u \in Threads :
        /\ devcfg.priv_key = 0
        /\ ~cgroup_helper
        /\ ipc[t] = "gc_ret"
        /\ io[t].param = "dispboost"
        /\ io[t].ret = devcfg.default_dispboost
        /\ op[u].kind = "get"

\* ------------------------------------------------------------------
\* Properties of the range checks (specification RangeSpec)
\* ------------------------------------------------------------------
\* base + v stays within [I915_PRIORITY_MIN, I915_PRIORITY_MAX] for every
\* base priority a context may have, in unbounded arithmetic.
OffsetKeepsRange(value) ==
    /\ FitsInt(value)
    /\ \A p \in I915_CONTEXT_MIN_USER_PRIORITY..I915_CONTEXT_MAX_USER_PRIORITY :
          /\ I915_PRIORITY_MIN <= p + s64_to_int(value)
          /\ p + s64_to_int(value) <= I915_PRIORITY_MAX

\* C21: i915_cgroup_setparam_ioctl accepts a priority offset exactly when it
\* keeps base + offset inside [I915_PRIORITY_MIN, I915_PRIORITY_MAX] for
\* every base priority in the user range; every other 64-bit value is
\* rejected with -EINVAL.
C21_AcceptedOffsetKeepsRange ==
    \A t \in Threads :
        (/\ variant = "i915"
         /\ ipc[t] = "io_put"
         /\ io[t].param = DRM_CGROUP_PARAM_PRIORITY_OFFSET)
        => /\ io[t].ret \in {0, 0 - EINVAL}
           /\ (io[t].ret = 0) <=> OffsetKeepsRange(io[t].value)

\* C22: in the drm variant every record's display_boost is at most
\* max_dispboost and its priority_offset lies in
\* [min_prio_offset, max_prio_offset], whatever 64-bit values were requested.
C22_StoredValuesWithinLimits ==
    variant = "drm" =>
        \A k \in PrivIds :
            priv[k].state = "live"
            => /\ priv[k].display_boost <= devcfg.max_dispboost
               /\ priv[k].priority_offset >= devcfg.min_prio_offset
               /\ priv[k].priority_offset <= devcfg.max_prio_offset

\* ------------------------------------------------------------------
\* Properties of the set-parameter ioctls, continued (IoctlSpec)
\* ------------------------------------------------------------------
\* The parameter fields of a record of the ioctls.
PayloadOf(p) == <<p.priority_offset, p.display_boost>>

\* Thread t executes the critical section of dev->cgroup.lock in this step:
\* the lock is taken and released inside get_or_create_cgroup_data and
\* nowhere else.
InCgroupLock(t) == ipc[t] = "io_goc" /\ ipc'[t] # "io_goc"

\* C23: every step that changes the parameter fields of an existing record
\* is taken by a thread that holds the lock protecting the records.
C23_PayloadWrittenUnderLock ==
    [][\A k \in PrivIds :
          (/\ priv[k].state = "live"
           /\ priv'[k].state = "live"
           /\ PayloadOf(priv'[k]) # PayloadOf(priv[k]))
          => \E t \in Threads : InCgroupLock(t)]_vars

\* ------------------------------------------------------------------
\* Properties of the reference-counted records (specification RefSpec)
\* ------------------------------------------------------------------
\* The calls that hold a reference on record k obtained from cgroup_priv_get
\* (or kref_init) or cgroup_priv_get_current and not yet put.
PrivHolders(k) ==
    {t \in Threads : /\ io[t].priv = k
                     /\ ipc[t] \in {"io_switch", "io_put", "gc_read", "gc_put"}}

\* The cgroups record k is installed for.
InstalledFor(k) == {c \in Cgroups : privOf[c] = k}

\* A record's count is the store's reference plus the callers' references,
\* and the record is freed exactly when it was allocated and the count is 0.
RefCountExact(k) ==
    /\ priv[k].ref = Cardinality(InstalledFor(k)) + Cardinality(PrivHolders(k))
    /\ (priv[k].state = "freed") <=> (k <= npriv /\ priv[k].ref = 0)
    /\ (priv[k].state = "unalloc") <=> (k > npriv)

\* C24: a record is freed exactly once, when its reference count reaches
\* zero: never while it is installed for a cgroup or a caller holds a
\* reference, and a freed record is not put or written again.
C24_FreedOnceAtZero ==
    /\ [](\A k \in PrivIds : RefCountExact(k))
    /\ [][\A k \in PrivIds :
             /\ priv[k].state = "freed" => priv'[k] = priv[k]
             /\ (priv[k].state = "live" /\ priv'[k].state = "freed")
                => (priv[k].ref = 1 /\ priv'[k].ref = 0)]_vars

\* A caller's kref_put was the last reference: the store had dropped the
\* record while the call was using it.
C24_Witness ==
    \E t \in Threads :
        /\ ipc[t] \in {"io_out", "gc_ret"}
        /\ io[t].priv # 0
        /\ priv[io[t].priv].state = "freed"

\* ------------------------------------------------------------------
\* Properties of the set-parameter ioctls: error codes (IoctlSpec)
\* ------------------------------------------------------------------
\* The driver does not support the parameter on this hardware.
FeatureAbsent(param) ==
    /\ variant = "drm"
    /\ \/ param = DRM_CGROUP_PARAM_PRIORITY_OFFSET /\ ~devcfg.has_prio_offset
       \/ param = DRM_CGROUP_PARAM_DISPBOOST_PRIORITY /\ ~devcfg.has_dispboost

\* C25: a set request for a parameter the driver does not support fails with
\* an error code of its own, different from the -EINVAL of bad flags,
\* unknown ids and out-of-range values.
C25_UnsupportedIsNotInvalid ==
    \A t \in Threads :
        (ipc[t] = "io_put" /\ FeatureAbsent(io[t].param))
        => (io[t].ret < 0 /\ io[t].ret # 0 - EINVAL)

\* ------------------------------------------------------------------
\* Properties of the helper library and the i915 callbacks, continued
\* (specification Spec)
\* ------------------------------------------------------------------
UserPriorities ==
    I915_CONTEXT_MIN_USER_PRIORITY..I915_CONTEXT_MAX_USER_PRIORITY

\* C26: whatever ids and 64-bit values set_param was called with, every
\* record holds a priority of the user range, and i915_cgroup_get_prio (a
\* get of I915_CGRP_DEF_CONTEXT_PRIORITY that read no freed record) returns
\* a priority of that range or I915_PRIORITY_NORMAL.
C26_StoredPriorityInUserRange ==
    /\ \A r \in RecIds :
          rec[r].state = "live" => rec[r].priority \in UserPriorities
    /\ \A t \in Threads :
          (/\ pc[t] = "get_unlock"
           /\ op[t].param = I915_CGRP_DEF_CONTEXT_PRIORITY
           /\ ~uaf)
          => i915_cgroup_get_prio(op[t].ret, op[t].out)
                \in UserPriorities \cup {I915_PRIORITY_NORMAL}

\* C26 witness: a record that holds the minimum priority has just been
\* offered a value no int can hold, whose low 32 bits are that minimum, and
\* the set was rejected.
C26_Witness ==
    \E t \in Threads :
        /\ pc[t] = "set_unlock"
        /\ op[t].param = I915_CGRP_DEF_CONTEXT_PRIORITY
        /\ op[t].val = WIDE_VAL
        /\ op[t].ret = 0 - EINVAL
        /\ ~op[t].created
        /\ rec[op[t].data].state = "live"
        /\ rec[op[t].data].priority = I915_CONTEXT_MIN_USER_PRIORITY

\* C27: set_param calls update_param exactly once when it found or created
\* a record, and not at all otherwise, with the caller's id and value, and
\* returns what update_param returned; get_param returns what read_param
\* returned (and wrote) when it found a record.
C27_CallbackResultPassedThrough ==
    /\ [](\A t \in Threads :
            pc[t] = "set_unlock"
            => op[t].updates = (IF op[t].data # 0 THEN 1 ELSE 0))
    /\ [][\A t \in Threads :
            /\ (pc[t] = "set_update" /\ pc'[t] = "set_unlock")
               => LET u == i915_cgrp_update_param(rec[op[t].data].priority,
                                                  op[t].param, op[t].val)
                  IN  /\ op'[t].ret = u.ret
                      /\ rec'[op[t].data].priority = u.priority
                      /\ op'[t].param = op[t].param
                      /\ op'[t].val = op[t].val
            /\ (pc[t] = "get_lock" /\ pc'[t] = "get_unlock"
                /\ op'[t].data # 0)
               => LET rd == i915_cgrp_read_param(rec[op'[t].data].priority,
                                                 op[t].param)
                  IN  /\ op'[t].ret = rd.ret
                      /\ op'[t].out = rd.out]_vars

\* C27 witness: a set on a cgroup without a record created the record,
\* called update_param once and returns the -EINVAL it got.
C27_Witness ==
    \E t \in Threads :
        /\ pc[t] = "set_unlock"
        /\ op[t].created
        /\ op[t].updates = 1
        /\ op[t].ret = 0 - EINVAL

\* What drm_cgrp_helper_get_param(dev, c, I915_CGRP_DEF_CONTEXT_PRIORITY,
\* &val) can return and write in the current state.
GetOutcomes(c) ==
    LET s == param_hash[BucketOf(c)]
    IN  {IF i = 0
         THEN <<0 - EINVAL, NoVal>>
         ELSE <<0, S64(rec[s[i]].priority)>> : i \in ScanOutcomes(c)}

\* C28: records are told apart by the cgroup they belong to, not by their
\* bucket: a set_param works on a record of its own cgroup, and neither its
\* insertion of a record nor its update changes what get_param returns for
\* any other cgroup, the cgroups of the same bucket included.
C28_SameBucketCgroupsIndependent ==
    /\ [](\A t \in Threads :
            pc[t] = "set_update" => rec[op[t].data].cgroup = op[t].cgrp)
    /\ [][\A t \in Threads :
            (pc[t] \in {"set_alloc", "set_update"} /\ pc'[t] # pc[t])
            => \A c \in Cgroups \ {op[t].cgrp} :
                  GetOutcomes(c)' = GetOutcomes(c)]_vars

\* C28 witness: two live cgroups of one bucket have a record each, and a set
\* has just stored in one of them a value the other does not hold.
C28_Witness ==
    \E t \in Threads, r \in InTable :
        /\ pc[t] = "set_unlock"
        /\ op[t].ret = 0
        /\ op[t].data # 0
        /\ rec[op[t].data].state = "live"
        /\ rec[r].state = "live"
        /\ rec[r].cgroup # op[t].cgrp
        /\ BucketOf(rec[r].cgroup) = BucketOf(op[t].cgrp)
        /\ cgrpLive[rec[r].cgroup]
        /\ cgrpLive[op[t].cgrp]
        /\ rec[r].priority # rec[op[t].data].priority

\* ------------------------------------------------------------------
\* Properties of the paths that do not set (specification ReadSpec)
\* ------------------------------------------------------------------
\* The private data installed in the cgroup store.
Installed == {privOf[c] : c \in Cgroups} \ {0}

\* The step belongs to drm_cgrp_helper_get_param (and so to
\* i915_cgroup_get_prio) or to a current-group accessor.
ReadStep ==
    \E t \in Threads :
        \/ pc'[t] # pc[t] /\ (pc[t] \in {"get_lock", "get_unlock"}
                              \/ pc'[t] = "get_lock")
        \/ ipc'[t] # ipc[t]

\* C29: get_param, i915_cgroup_get_prio, the current-group accessors,
\* cgrp_destroyed and shutdown never allocate a record and never put one
\* into the table or the cgroup store; the reads leave the table, the store
\* and every stored value as they were.
C29_OnlySetAddsRecords ==
    [][/\ nalloc' = nalloc
       /\ npriv' = npriv
       /\ InTable' \subseteq InTable
       /\ Installed' \subseteq Installed
       /\ \A r \in RecIds : rec[r].state = "unalloc" => rec'[r] = rec[r]
       /\ \A k \in PrivIds : priv[k].state = "unalloc" => priv'[k] = priv[k]
       /\ ReadStep => /\ param_hash' = param_hash
                      /\ rec' = rec
                      /\ privOf' = privOf
                      /\ \A k \in PrivIds :
                            /\ PayloadOf(priv'[k]) = PayloadOf(priv[k])
                            /\ priv'[k].state = priv[k].state]_vars

\* C29 witness: a get_param and an accessor have both just missed, on a
\* cgroup that has neither a record nor private data, and report -EINVAL and
\* the default.
C29_Witness ==
    \E t \in Threads, u \in Threads :
        /\ pc[t] = "get_unlock"
        /\ op[t].data = 0
        /\ op[t].ret = 0 - EINVAL
        /\ LiveRecordsOf(op[t].cgrp) = {}
        /\ ipc[u] = "gc_ret"
        /\ io[u].looked
        /\ io[u].priv = 0
        /\ privOf[io[u].cgrp] = 0
        /\ op[t].cgrp = io[u].cgrp

\* ------------------------------------------------------------------
\* Properties of two devices (specification TwoDeviceSpec)
\* ------------------------------------------------------------------
\* C30: the records stored for a device stay in its registry when cgroup
\* support is initialised for another device: no step takes a record out of
\* the table and leaves it allocated.
C30_SecondInitKeepsRecords ==
    [][\A r \in RecIds :
          (/\ r \in InTable
           /\ rec[r].state = "live"
           /\ rec'[r].state = "live")
          => r \in InTable']_vars

\* ------------------------------------------------------------------
\* Properties of teardown with calls in flight (specification TeardownSpec)
\* ------------------------------------------------------------------
\* C31: once drm_cgrp_helper_shutdown has returned, every record that
\* alloc_params handed out has been freed and the table holds no record,
\* whatever set_param calls and destruction notifications were in flight.
C31_NoLeakAcrossTeardown ==
    shutdown = "returned"
    => /\ InTable = {}
       /\ \A r \in RecIds : rec[r].state # "live"

\* ------------------------------------------------------------------
\* Properties under fair scheduling (specification FairSpec)
\* ------------------------------------------------------------------
\* The positions between mutex_lock and mutex_unlock of the four functions.
HoldsMutex(t) ==
    pc[t] \in {"set_alloc", "set_update", "set_unlock", "get_unlock",
               "cd_unlock", "sd_unlock"}

DestroyedStep(t) == pc[t] = "cd_lock" /\ pc'[t] = "cd_unlock"

\* C33: the body of cgrp_destroyed for cgroup g leaves every bucket as it
\* was, and every record whose cgroup is not g keeps its contents and is
\* handed neither to remove_params nor to kfree.
C33_DestroyTouchesOnlyItsRecord ==
    [][\A t \in Threads :
          DestroyedStep(t)
          => /\ param_hash' = param_hash
             /\ \A r \in RecIds :
                   rec[r].cgroup # op[t].cgrp
                   => /\ rec'[r] = rec[r]
                      /\ removeCalls'[r] = removeCalls[r]
                      /\ kfreeCalls'[r] = kfreeCalls[r]]_vars

\* C33 witness: cgrp_destroyed has freed the record of its cgroup while the
\* same bucket holds the live record of another cgroup, behind it or before
\* it in the chain.
C33_Witness ==
    \E t \in Threads, r \in RecIds :
       /\ pc[t] = "cd_unlock"
       /\ op[t].data # 0
       /\ rec[op[t].data].state = "freed"
       /\ rec[r].state = "live"
       /\ rec[r].cgroup # op[t].cgrp
       /\ r \in SeqToSet(param_hash[BucketOf(op[t].cgrp)])
       /\ rec[r].priority # 0
       /\ Cleanups(r) = 0

\* ------------------------------------------------------------------
\* Properties of records nothing was stored in (specification CreateSpec)
\* ------------------------------------------------------------------
\* C34: in drm_cgroup.c, as long as no setparam has stored a value, every
\* record holds priority_offset 0 and display_boost default_dispboost, and
\* drm_cgroup_get_current_prio_offset and drm_cgroup_get_current_dispboost
\* return for a cgroup with a record what they return for one without: the
\* default.
C34_FreshRecordReadsAsDefault ==
    /\ \A k \in PrivIds :
          priv[k].state = "live"
          => /\ priv[k].priority_offset = 0
             /\ priv[k].display_boost = devcfg.default_dispboost
    /\ \A t \in Threads :
          ipc[t] = "gc_ret" => io[t].ret = AccessorDefault(io[t].param)

\* C34 witness: drm_cgroup_get_current_dispboost has read the record that a
\* rejected setparam created, on a device whose default boost is not zero.
C34_Witness ==
    \E t \in Threads :
       /\ ipc[t] = "gc_ret"
       /\ io[t].param = "dispboost"
       /\ io[t].looked
       /\ io[t].priv # 0
       /\ priv[io[t].priv].state = "live"
       /\ devcfg.default_dispboost # 0

\* ------------------------------------------------------------------
\* Properties of the private-data key (specification KeySpec)
\* ------------------------------------------------------------------
\* C35: when the initialisation failed to obtain a key (priv_key holds the
\* negative error code), a current-group accessor returns its default
\* without calling cgroup_priv_get_current, and the shutdown does not call
\* cgroup_priv_destroykey.
C35_FailedKeyIsNotUsed ==
    \A t \in Threads :
       (ipc[t] \in {"gc_ret", "init_ret"} /\ devcfg.priv_key < 0)
       => /\ io[t].param \in {"prio_offset", "dispboost"}
             => io[t].ret = AccessorDefault(io[t].param)
          /\ ~io[t].looked

====
